---- MODULE Spec2Model ----
(***************************************************************************)
(* School Upgrade System: the upgrade-candidate analysis of src/app.py.    *)
(*                                                                         *)
(* A DataFrame is a sequence of rows in frame order; a row is a record of  *)
(* the columns the analysis reads.  None and the empty list take the same  *)
(* branch at every test of an optional list argument (app.py lines 210,    *)
(* 217, 263, 267, 271), so both are the empty sequence.  analysis_id None  *)
(* is 0; uuid4 values are numbered in the order they are issued.           *)
(*                                                                         *)
(* Coordinates: every school of a working set lies on the meridian of     *)
(* _xCord = 67 and _yCord is its distance in km north of the parallel of   *)
(* 30 degrees (the default coordinates of load_data), so that the          *)
(* haversine formula of calculate_distance_fast (dlon = 0,                 *)
(* a = sin^2(dlat/2), c = |dlat|) is the difference of the two values.     *)
(* NonFinite stands for an infinite latitude, on which math.sin and        *)
(* math.cos raise and the function returns float('inf'); NaN for a missing *)
(* number and Missing for a missing text cell of an uploaded file.         *)
(* Positions and radii are chosen so that no distance but 0 equals a       *)
(* radius.                                                                 *)
(*                                                                         *)
(* AnalysisDate (line 355) is wall-clock time and is not modelled; columns *)
(* that are only copied into the candidate record (SchoolName, Tehsil,     *)
(* SubTehsil, UC, VillageName, ElectricityInSchool, Longitude) are left    *)
(* out.                                                                    *)
(***************************************************************************)
EXTENDS Integers, Sequences, FiniteSets, TLC

VARIABLES schools_df, schools_loaded, upgrade_candidates, search_radius_km,
          analysis_id, last, csv_file, history, requests, environment, application

vars == <<schools_df, schools_loaded, upgrade_candidates, search_radius_km,
          analysis_id, last, csv_file, history, requests, environment, application>>

\* The serverless entry point (vercel_app.py): the environment it starts in
\* and the module-level `application` it builds.
deployment == <<environment, application>>

(***************************************************************************)
(* Bounds of the model.                                                    *)
(***************************************************************************)
NumSchools == 3
MaxRuns == 2

(***************************************************************************)
(* Program constants.                                                      *)
(***************************************************************************)
UPGRADE_MAPPING ==
    ("Primary" :> "Middle") @@ ("Middle" :> "High") @@ ("High" :> "Higher Secondary")

UPGRADE_MAPPING_KEYS == <<"Primary", "Middle", "High">>

DistrictLimit == 10
SampleLimit == 50
DefaultRadius == 25
DefaultMinEnrollment == 20
DefaultMaxCandidates == 500
Infinity == 1000000
NonFinite == 999999
NaN == -999998
Missing == "nan"
DefaultLongitude == 67
ReferenceLatitude == 30
ReferenceParallel == 0
KmPerDegree == 111
FillEnrollment == 50

\* Latitude 0 and latitude 90 in km north of the reference parallel.
ZeroLatitude == 0 - ReferenceLatitude * KmPerDegree

NorthPole == (90 - ReferenceLatitude) * KmPerDegree

SouthPole == 0 - (90 + ReferenceLatitude) * KmPerDegree

(***************************************************************************)
(* Sequence helpers standing for the pandas primitives.                    *)
(***************************************************************************)
IsIn(x, list) == \E i \in 1..Len(list) : list[i] = x

RemoveAt(s, i) == SubSeq(s, 1, i - 1) \o SubSeq(s, i + 1, Len(s))

Take(s, n) == SubSeq(s, 1, IF n < Len(s) THEN n ELSE Len(s))

\* Series.unique(): the distinct values in order of first occurrence.
Unique(s) ==
    LET first == {i \in 1..Len(s) : \A j \in 1..(i - 1) : s[j] # s[i]}
    IN SubSeq([k \in 1..Cardinality(first) |->
                  s[CHOOSE i \in first : Cardinality({j \in first : j <= i}) = k]],
              1, Cardinality(first))

Column(rows, col) == [i \in 1..Len(rows) |-> rows[i][col]]

\* DataFrame.nlargest(n, column), keep='first': the n rows of largest value,
\* in descending order, equal values in frame order.  RankIn is the position
\* of row i in that order.
RankIn(rows, i) ==
    1 + Cardinality({j \in 1..Len(rows) :
            \/ rows[j].TotalStudentProfileEntered > rows[i].TotalStudentProfileEntered
            \/ /\ rows[j].TotalStudentProfileEntered = rows[i].TotalStudentProfileEntered
               /\ j < i})

NLargest(rows, n) ==
    Take([k \in 1..Len(rows) |-> rows[CHOOSE i \in 1..Len(rows) : RankIn(rows, i) = k]],
         IF n > 0 THEN n ELSE 0)

SmallestIndex(vals) ==
    CHOOSE i \in 1..Len(vals) :
        \A j \in 1..Len(vals) : vals[i] < vals[j] \/ (vals[i] = vals[j] /\ i <= j)

RECURSIVE SortValues(_)
SortValues(vals) ==
    IF vals = <<>> THEN <<>>
    ELSE LET i == SmallestIndex(vals)
         IN <<vals[i]>> \o SortValues(RemoveAt(vals, i))

\* school_value >= Series.quantile(0.7), linear interpolation: the quantile sits
\* at position 0.7 * (n - 1) of the sorted values; both sides are scaled by 10.
AtLeastQuantile70(value, vals) ==
    LET s == SortValues(vals)
        n == Len(s)
        h == 7 * (n - 1)
        lo == s[(h \div 10) + 1]
        hi == s[IF (h \div 10) + 2 <= n THEN (h \div 10) + 2 ELSE n]
    IN 10 * value >= 10 * lo + (h % 10) * (hi - lo)

(***************************************************************************)
(* load_data (lines 55-122).  A file is the set of its column names and    *)
(* its rows; a row holds, under the standard name, the cell of the column  *)
(* that load_data reads for it (the first alternative name present).       *)
(***************************************************************************)
EnrollmentNames ==
    {"TotalStudentProfileEntered", "TotalSchoolProfileStudents", "TotalStudents",
     "Students"}

XNames == {"_xCord", "Longitude", "longitude", "lng", "lon", "x_cord", "xCord"}

YNames == {"_yCord", "Latitude", "latitude", "lat", "y_cord", "yCord"}

HasColumn(file, names) == names \cap file.columns # {}

\* Lines 62-95: alternative names, and the defaults for absent columns.
MapColumns(file) ==
    [i \in 1..Len(file.rows) |->
        [file.rows[i] EXCEPT
            !.TotalStudentProfileEntered =
                IF HasColumn(file, EnrollmentNames) THEN @ ELSE FillEnrollment,
            !._xCord = IF HasColumn(file, XNames) THEN @ ELSE DefaultLongitude,
            !._yCord = IF HasColumn(file, YNames) THEN @ ELSE ReferenceParallel]]

\* Line 98: dropna(subset=['_xCord', '_yCord']).
DropNa(rows) == SelectSeq(rows, LAMBDA row : row._xCord # NaN /\ row._yCord # NaN)

\* Lines 99-101: to_numeric(errors='coerce').fillna(50).
FillNaEnrollment(rows) ==
    [i \in 1..Len(rows) |->
        [rows[i] EXCEPT !.TotalStudentProfileEntered =
                            IF @ = NaN THEN FillEnrollment ELSE @]]

\* Lines 103-109: a default only where the whole column is absent.
DefaultColumns(file, rows) ==
    [i \in 1..Len(rows) |->
        [rows[i] EXCEPT
            !.SchoolLevel = IF "SchoolLevel" \in file.columns THEN @ ELSE "Primary",
            !.FunctionalStatus =
                IF "FunctionalStatus" \in file.columns THEN @ ELSE "Functional"]]

\* Lines 112-117: coordinates present and not zero.
NonZeroCoordinates(rows) ==
    SelectSeq(rows, LAMBDA row : /\ row._xCord # NaN /\ row._yCord # NaN
                                 /\ row._xCord # 0 /\ row._yCord # ZeroLatitude)

load_data(file) ==
    NonZeroCoordinates(DefaultColumns(file, FillNaEnrollment(DropNa(MapColumns(file)))))

(***************************************************************************)
(* Distance Calculator and Proximity Filter.                               *)
(***************************************************************************)
calculate_distance_fast(lat1, lat2) ==
    IF lat1 = NonFinite \/ lat2 = NonFinite THEN Infinity
    ELSE IF lat1 >= lat2 THEN lat1 - lat2 ELSE lat2 - lat1

\* geodesic((lat1, lon1), (lat2, lon2)).kilometers; geodesic raises ValueError
\* on a coordinate that is not finite or a latitude outside [-90, 90], and the
\* function returns float('inf').
OffTheGlobe(lat) == lat > NorthPole \/ lat < SouthPole

calculate_distance(lat1, lat2) ==
    IF lat1 = NonFinite \/ lat2 = NonFinite THEN Infinity
    ELSE IF OffTheGlobe(lat1) \/ OffTheGlobe(lat2) THEN Infinity
    ELSE IF lat1 >= lat2 THEN lat1 - lat2 ELSE lat2 - lat1

WithinRadiusInverted(distance, radius_km) == distance >= radius_km

WithinRadius(distance, radius_km) == distance <= radius_km

LevelSchoolsAnyLevel(district_schools, target_level) == district_schools

LevelSchools(district_schools, target_level) ==
    SelectSeq(district_schools, LAMBDA row : row.SchoolLevel = target_level)

NearestIndex(target_lat, rows) ==
    CHOOSE i \in 1..Len(rows) :
        \A j \in 1..Len(rows) :
            LET di == calculate_distance_fast(target_lat, rows[i]._yCord)
                dj == calculate_distance_fast(target_lat, rows[j]._yCord)
            IN di < dj \/ (di = dj /\ i <= j)

RECURSIVE SortByDistance(_, _)
SortByDistance(target_lat, rows) ==
    IF rows = <<>> THEN <<>>
    ELSE LET i == NearestIndex(target_lat, rows)
         IN <<rows[i]>> \o SortByDistance(target_lat, RemoveAt(rows, i))

find_nearby_schools_fast(target_school, target_level, radius_km, district_schools) ==
    LET level_schools == LevelSchools(district_schools, target_level)
        nearby_schools ==
            SelectSeq(level_schools,
                      LAMBDA row : WithinRadius(
                          calculate_distance_fast(target_school._yCord, row._yCord),
                          radius_km))
    IN SortByDistance(target_school._yCord, nearby_schools)

\* The variant over the whole working set (lines 131-155).
find_nearby_schools(target_school, target_level, radius_km) ==
    LET level_schools ==
            SelectSeq(schools_df,
                      LAMBDA row : /\ row.SchoolLevel = target_level
                                   /\ row.District = target_school.District)
        nearby_schools ==
            SelectSeq(level_schools,
                      LAMBDA row : calculate_distance(target_school._yCord, row._yCord)
                                       <= radius_km)
    IN SortByDistance(target_school._yCord, nearby_schools)

(***************************************************************************)
(* Candidate Selector: the filters of analyze_upgrade_needs.               *)
(***************************************************************************)
ScopeFilterGenderIgnored(df, districts, genders) ==
    IF Len(districts) > 0
    THEN SelectSeq(df, LAMBDA row : IsIn(row.District, districts))
    ELSE df

ScopeFilter(df, districts, genders) ==
    LET by_district ==
            IF Len(districts) > 0
            THEN SelectSeq(df, LAMBDA row : IsIn(row.District, districts))
            ELSE df
    IN IF Len(genders) > 0
       THEN SelectSeq(by_district, LAMBDA row : IsIn(row.Gender, genders))
       ELSE by_district

StatusFilter(filtered_schools, include_functional, include_non_functional) ==
    IF include_functional \/ include_non_functional
    THEN SelectSeq(filtered_schools,
                   LAMBDA row :
                       \/ include_functional /\ row.FunctionalStatus = "Functional"
                       \/ include_non_functional /\ row.FunctionalStatus # "Functional")
    ELSE filtered_schools

QualityGateNoEnrollment(row, min_enrollment) ==
    /\ row.FunctionalStatus = "Functional"
    /\ row.BuildingCondition # "Dangerous Condition"
    /\ row.Building = "Yes"

QualityGate(row, min_enrollment) ==
    /\ row.FunctionalStatus = "Functional"
    /\ row.TotalStudentProfileEntered >= min_enrollment
    /\ row.BuildingCondition # "Dangerous Condition"
    /\ row.Building = "Yes"

NonFunctionalGateNoBuilding(row) == row.FunctionalStatus # "Functional"

NonFunctionalGate(row) ==
    /\ row.FunctionalStatus # "Functional"
    /\ row.Building = "Yes"

QualityFunctional(filtered_schools, include_functional, min_enrollment) ==
    IF include_functional
    THEN SelectSeq(filtered_schools, LAMBDA row : QualityGate(row, min_enrollment))
    ELSE <<>>

NonFunctionalSchools(filtered_schools, include_non_functional) ==
    IF include_non_functional
    THEN SelectSeq(filtered_schools, LAMBDA row : NonFunctionalGate(row))
    ELSE <<>>

\* pd.concat of the two partitions.  When neither flag is set both are
\* pd.DataFrame(), the concatenation has no columns, and line 262 raises KeyError.
QualityPoolHasColumns(args) == args.include_functional \/ args.include_non_functional

QualitySchools(df, args) ==
    LET filtered_schools ==
            StatusFilter(ScopeFilter(df, args.districts, args.genders),
                         args.include_functional, args.include_non_functional)
    IN QualityFunctional(filtered_schools, args.include_functional, args.min_enrollment)
       \o NonFunctionalSchools(filtered_schools, args.include_non_functional)

DistrictsToProcessUncapped(quality_schools, districts) ==
    LET present == Unique(Column(quality_schools, "District"))
    IN IF Len(districts) > 0
       THEN SelectSeq(present, LAMBDA d : IsIn(d, districts))
       ELSE present

DistrictsToProcess(quality_schools, districts) ==
    LET present == Unique(Column(quality_schools, "District"))
    IN IF Len(districts) > 0
       THEN SelectSeq(present, LAMBDA d : IsIn(d, districts))
       ELSE Take(present, DistrictLimit)

DistrictSchools(quality_schools, district) ==
    SelectSeq(quality_schools, LAMBDA row : row.District = district)

AnalyzeLevels(analyze_levels) ==
    IF Len(analyze_levels) = 0 THEN UPGRADE_MAPPING_KEYS ELSE analyze_levels

CurrentLevelSchoolsUnfiltered(district_schools, current_level) == district_schools

CurrentLevelSchools(district_schools, current_level) ==
    SelectSeq(district_schools, LAMBDA row : row.SchoolLevel = current_level)

SampledSchools(current_level_schools) ==
    NLargest(current_level_schools,
             IF SampleLimit < Len(current_level_schools)
             THEN SampleLimit ELSE Len(current_level_schools))

(***************************************************************************)
(* Candidate records and the eligibility rule.                             *)
(***************************************************************************)
UpgradeReasonAfterExclusion(current_level, next_level, nearby_same_level, radius_km) ==
    IF Len(nearby_same_level) - 1 > 1
    THEN [no_school |-> next_level, within_km |-> radius_km,
          wording |-> "highest enrollment in area", only_level |-> ""]
    ELSE [no_school |-> next_level, within_km |-> radius_km,
          wording |-> "only school in area", only_level |-> current_level]

UpgradeReason(current_level, next_level, nearby_same_level, radius_km) ==
    IF Len(nearby_same_level) > 1
    THEN [no_school |-> next_level, within_km |-> radius_km,
          wording |-> "highest enrollment in area", only_level |-> ""]
    ELSE [no_school |-> next_level, within_km |-> radius_km,
          wording |-> "only school in area", only_level |-> current_level]

NearbySameLevelSchoolsUnguarded(nearby_same_level) == Len(nearby_same_level) - 1

NearbySameLevelSchools(nearby_same_level) ==
    IF Len(nearby_same_level) > 0 THEN Len(nearby_same_level) - 1 ELSE 0

create_candidate_record(school, current_level, next_level, nearby_higher, nearby_same_level, radius_km) ==
    [BemisCode |-> school.BemisCode,
     District |-> school.District,
     Gender |-> school.Gender,
     CurrentLevel |-> current_level,
     RecommendedLevel |-> next_level,
     TotalStudentProfileEntered |-> school.TotalStudentProfileEntered,
     Building |-> school.Building,
     BuildingCondition |-> school.BuildingCondition,
     Latitude |-> school._yCord,
     NearbyHigherSchools |-> Len(nearby_higher),
     NearbySameLevelSchools |-> NearbySameLevelSchools(nearby_same_level),
     UpgradeReason |-> UpgradeReason(current_level, next_level, nearby_same_level, radius_km),
     SearchRadius_km |-> radius_km]

AdequatelyServed(nearby_higher) == Len(nearby_higher) # 0

UpgradeCriteriaSelfExcluded(school, current_level, nearby_same_level, district_schools) ==
    \/ Len(nearby_same_level) - 1 <= 2
    \/ AtLeastQuantile70(
           school.TotalStudentProfileEntered,
           Column(LevelSchools(district_schools, current_level),
                  "TotalStudentProfileEntered"))

UpgradeCriteriaPercentileOnly(school, current_level, nearby_same_level, district_schools) ==
    AtLeastQuantile70(
        school.TotalStudentProfileEntered,
        Column(LevelSchools(district_schools, current_level),
               "TotalStudentProfileEntered"))

UpgradeCriteria(school, current_level, nearby_same_level, district_schools) ==
    \/ Len(nearby_same_level) <= 2
    \/ AtLeastQuantile70(
           school.TotalStudentProfileEntered,
           Column(LevelSchools(district_schools, current_level),
                  "TotalStudentProfileEntered"))

\* The three tests `len(upgrade_candidates) >= max_candidates` that leave the
\* school loop (314), the level loop (317) and the district loop (320).
SchoolLoopBreakOffByOne(candidates, max_candidates) == Len(candidates) > max_candidates

SchoolLoopBreak(candidates, max_candidates) == Len(candidates) >= max_candidates

LevelLoopBreak(candidates, max_candidates) == Len(candidates) >= max_candidates

DistrictLoopBreakMissing(candidates, max_candidates) == FALSE

DistrictLoopBreak(candidates, max_candidates) == Len(candidates) >= max_candidates

(***************************************************************************)
(* The three nested loops of analyze_upgrade_needs (lines 274-321).        *)
(***************************************************************************)
\* The school loop (lines 296-315): every sampled school that qualifies is
\* appended in sample order, and the loop is left after the first append
\* that satisfies the test of line 314.
Flagged(school, current_level, nearby_higher, nearby_same_level, district_schools) ==
    /\ ~AdequatelyServed(nearby_higher)
    /\ UpgradeCriteria(school, current_level, nearby_same_level, district_schools)

\* One pass of the loop body (lines 297-311): the two proximity queries, the
\* test, and the record that is appended when the test passes.
Evaluation(school, current_level, district_schools, args) ==
    LET next_level == UPGRADE_MAPPING[current_level]
        nearby_higher ==
            find_nearby_schools_fast(school, next_level, args.radius_km, district_schools)
        nearby_same_level ==
            find_nearby_schools_fast(school, current_level, args.radius_km,
                                     district_schools)
        flagged ==
            Flagged(school, current_level, nearby_higher, nearby_same_level,
                    district_schools)
    IN [flagged |-> flagged,
        record |-> IF flagged
                   THEN create_candidate_record(school, current_level, next_level,
                                                nearby_higher, nearby_same_level,
                                                args.radius_km)
                   ELSE <<>>]

Evaluations(sampled_schools, current_level, district_schools, args) ==
    SubSeq([k \in 1..Len(sampled_schools) |->
               Evaluation(sampled_schools[k], current_level, district_schools, args)],
           1, Len(sampled_schools))

Records(evaluations) ==
    LET flagged == SelectSeq(evaluations, LAMBDA evaluation : evaluation.flagged)
    IN SubSeq([k \in 1..Len(flagged) |-> flagged[k].record], 1, Len(flagged))

\* How many of the records are appended: all of them, or up to the first
\* append after which the test of line 314 leaves the loop.
Appended(candidates, records, max_candidates) ==
    LET breaks ==
            {k \in 1..Len(records) :
                SchoolLoopBreak(candidates \o SubSeq(records, 1, k), max_candidates)}
    IN IF breaks = {} THEN Len(records)
       ELSE CHOOSE k \in breaks : \A other \in breaks : k <= other

AppendRecords(candidates, records, max_candidates) ==
    candidates \o SubSeq(records, 1, Appended(candidates, records, max_candidates))

SchoolLoop(candidates, sampled_schools, current_level, district_schools, args) ==
    AppendRecords(candidates,
                  Records(Evaluations(sampled_schools, current_level,
                                      district_schools, args)),
                  args.max_candidates)

RECURSIVE LevelLoop(_, _, _, _, _)
LevelLoop(candidates, levels, j, district_schools, args) ==
    IF j > Len(levels) THEN candidates
    ELSE LET current_level == levels[j]
             current_level_schools == CurrentLevelSchools(district_schools, current_level)
         IN IF current_level \notin DOMAIN UPGRADE_MAPPING
            THEN LevelLoop(candidates, levels, j + 1, district_schools, args)
            ELSE IF Len(current_level_schools) = 0
            THEN LevelLoop(candidates, levels, j + 1, district_schools, args)
            ELSE LET after ==
                         SchoolLoop(candidates, SampledSchools(current_level_schools),
                                    current_level, district_schools, args)
                 IN IF LevelLoopBreak(after, args.max_candidates)
                    THEN after
                    ELSE LevelLoop(after, levels, j + 1, district_schools, args)

RECURSIVE DistrictLoop(_, _, _, _, _)
DistrictLoop(candidates, districts_to_process, k, quality_schools, args) ==
    IF k > Len(districts_to_process) THEN candidates
    ELSE LET district_schools == DistrictSchools(quality_schools, districts_to_process[k])
             after == LevelLoop(candidates, AnalyzeLevels(args.analyze_levels), 1,
                                district_schools, args)
         IN IF DistrictLoopBreak(after, args.max_candidates)
            THEN after
            ELSE DistrictLoop(after, districts_to_process, k + 1, quality_schools, args)

\* upgrade_candidates = []  (line 205)
NewCandidateListKept == upgrade_candidates

NewCandidateList == <<>>

\* self.upgrade_candidates = pd.DataFrame(upgrade_candidates)  (line 323)
StoredCandidatesKeptWhenEmpty(returned) ==
    IF returned = <<>> THEN upgrade_candidates ELSE returned

StoredCandidates(returned) == returned

\* What one call of analyze_upgrade_needs(df, args) does: the outcome and,
\* when it returns, the returned list.
\* len(self.schools_df) at line 207 raises TypeError when no file was loaded.
AnalysisOutcome(args) ==
    IF ~schools_loaded THEN "TypeError"
    ELSE IF QualityPoolHasColumns(args) THEN "ok" ELSE "KeyError"

AnalysisResult(df, args) ==
    LET quality_schools == QualitySchools(df, args)
    IN DistrictLoop(NewCandidateList,
                    DistrictsToProcess(quality_schools, args.districts),
                    1, quality_schools, args)

(***************************************************************************)
(* Inputs: the working sets an upload can leave in schools_df, the         *)
(* arguments of a direct call and the fields of an /analyze form.  Each    *)
(* family varies some columns (arguments) and keeps the others at the      *)
(* values below.                                                           *)
(***************************************************************************)
Levels == {"Primary", "Middle", "High", "Higher Secondary"}

SchoolIds == 1..NumSchools

DefaultLatitude(i) == CASE i = 1 -> 0 [] i = 2 -> 5 [] i = 3 -> 40 [] OTHER -> 45

DefaultEnrollment(i) == CASE i = 1 -> 30 [] i = 2 -> 25 [] i = 3 -> 60 [] OTHER -> 25

DefaultLevel(i) == IF i = 2 THEN "Middle" ELSE "Primary"

DefaultSchool(i) ==
    [BemisCode |-> i, District |-> "A", Gender |-> "Boys",
     SchoolLevel |-> DefaultLevel(i), FunctionalStatus |-> "Functional",
     Building |-> "Yes", BuildingCondition |-> "Good",
     TotalStudentProfileEntered |-> DefaultEnrollment(i),
     _xCord |-> DefaultLongitude, _yCord |-> DefaultLatitude(i)]

With(base, choice) ==
    [a \in DOMAIN base |-> IF a \in DOMAIN choice THEN choice[a] ELSE base[a]]

\* A working set: school i is DefaultSchool(i) with the columns of choice[i].
Frame(choice) == [i \in SchoolIds |-> With(DefaultSchool(i), choice[i])]

GeoChoices ==
    [SchoolLevel : {"Primary", "Middle"}, _yCord : {0, 5, NonFinite}]

AdminChoices ==
    [District : {"A", "B"}, SchoolLevel : {"Primary", "High", "Higher Secondary"}]

StatusChoices ==
    [FunctionalStatus : {"Functional", "Non-Functional"},
     TotalStudentProfileEntered : {15, 30}]

BuildingChoices ==
    [FunctionalStatus : {"Functional", "Non-Functional"}, Building : {"Yes", "No"}]

ConditionChoices ==
    [BuildingCondition : {"Good", "Dangerous Condition"}, Gender : {"Boys", "Girls"}]

EnrollmentChoices ==
    [SchoolLevel : {"Primary"}, TotalStudentProfileEntered : {15, 25, 30, 60}]

WorkingSets ==
    {Frame(choice) : choice \in
        [SchoolIds -> GeoChoices] \cup [SchoolIds -> AdminChoices]
        \cup [SchoolIds -> StatusChoices] \cup [SchoolIds -> BuildingChoices]
        \cup [SchoolIds -> ConditionChoices] \cup [SchoolIds -> EnrollmentChoices]}

Radii == {-1, 3, 25, 50}

DefaultArgs ==
    [radius_km |-> DefaultRadius, min_enrollment |-> DefaultMinEnrollment,
     max_candidates |-> DefaultMaxCandidates, districts |-> <<>>,
     include_functional |-> TRUE, include_non_functional |-> FALSE,
     analyze_levels |-> <<>>, genders |-> <<>>]

CallArgs ==
    {With(DefaultArgs, choice) : choice \in
        [radius_km : Radii, max_candidates : {0, 1, 2, DefaultMaxCandidates}]
        \cup [analyze_levels : {<<"Middle", "Primary">>, <<"Primary", "Primary">>,
                                <<"Higher Secondary", "High">>},
              max_candidates : {1, DefaultMaxCandidates}]
        \cup [include_functional : BOOLEAN, include_non_functional : BOOLEAN,
              genders : {<<>>, <<"Girls">>}]
        \cup [min_enrollment : {10, DefaultMinEnrollment}, radius_km : {3, 25}]
        \cup [districts : {<<"B">>, <<"B", "A">>},
              max_candidates : {1, DefaultMaxCandidates}]}

\* request.form of POST /analyze; getlist fields are sequences.
DefaultForm ==
    [radius |-> DefaultRadius, min_enrollment |-> DefaultMinEnrollment,
     districts |-> <<>>, genders |-> <<>>, functional_status |-> <<>>,
     analyze_levels |-> <<>>]

Forms ==
    {With(DefaultForm, choice) : choice \in
        [functional_status : {<<>>, <<"functional">>, <<"non_functional">>,
                              <<"functional", "non_functional">>},
         districts : {<<>>, <<"B">>, <<"all", "B">>}]
        \cup [radius : {-1, 3}, analyze_levels : {<<>>, <<"Higher Secondary">>}]}

\* The files given to load_data: row i is DefaultSchool(i) with the cells of
\* choice[i]; BeyondPole is a latitude of 95 degrees.
\* A path that read_csv cannot read.
NoFile == [readable |-> FALSE, columns |-> {}, rows |-> <<>>]

AllColumns ==
    {"BemisCode", "District", "Gender", "SchoolLevel", "FunctionalStatus", "Building",
     "BuildingCondition", "TotalStudentProfileEntered", "_xCord", "_yCord"}

BeyondPole == NorthPole + 5 * KmPerDegree

CoordinateCells ==
    {[SchoolLevel |-> "Primary"], [_xCord |-> NaN], [_xCord |-> 0], [_yCord |-> NaN],
     [_yCord |-> ZeroLatitude]}

LatitudeCells ==
    {[SchoolLevel |-> "Primary"], [_yCord |-> NonFinite], [_yCord |-> BeyondPole],
     [_yCord |-> BeyondPole + 5]}

TextCells ==
    {[SchoolLevel |-> "Primary"], [SchoolLevel |-> Missing],
     [FunctionalStatus |-> Missing], [TotalStudentProfileEntered |-> NaN]}

ColumnSets ==
    {AllColumns \ {"SchoolLevel"}, AllColumns \ {"FunctionalStatus"},
     AllColumns \ {"TotalStudentProfileEntered"}, AllColumns \ {"_xCord", "_yCord"},
     (AllColumns \ {"_xCord", "_yCord", "TotalStudentProfileEntered"})
         \cup {"Longitude", "Latitude", "Students"}}

File(columns, choice) == [readable |-> TRUE, columns |-> columns, rows |-> Frame(choice)]

CsvFiles ==
    {File(AllColumns, choice) : choice \in
        [SchoolIds -> CoordinateCells] \cup [SchoolIds -> LatitudeCells]
        \cup [SchoolIds -> TextCells]}
    \cup {File(columns, choice) : columns \in ColumnSets, choice \in [SchoolIds -> TextCells]}
    \cup {NoFile}

\* The requests of a session after an upload.
SessionArgs ==
    {DefaultArgs,
     [DefaultArgs EXCEPT !.analyze_levels = <<"Higher Secondary">>],
     [DefaultArgs EXCEPT !.include_functional = FALSE]}

SessionForms == {[DefaultForm EXCEPT !.radius = 3]}

(***************************************************************************)
(* The serverless entry point, vercel_app.py: create_application builds a  *)
(* small Flask application, tries to import the full one from app.py and   *)
(* returns one of the two.  A Flask application is its name, its table of  *)
(* view functions by endpoint and its URL rules.                           *)
(***************************************************************************)
\* The third-party packages app.py imports (lines 1-12); vercel_app.py itself
\* imports flask (line 9).
Packages == {"flask", "werkzeug", "pandas", "numpy", "geopy", "folium"}

\* An environment: the packages installed, and whether the folders 'uploads'
\* and 'downloads' exist or can be made in the working directory (app.py
\* lines 21-22, which run on import, outside any try).
Environments == [installed : SUBSET Packages, folders : BOOLEAN]

LocalEnvironment == [installed |-> Packages, folders |-> TRUE]

NoApp == [name |-> "none", view_functions |-> <<>>, url_map |-> {}]

\* Flask.add_url_rule(rule, endpoint, view_func): the rule is added to the
\* map, then an endpoint already bound to another function is refused with
\* AssertionError.
add_url_rule(app, rule, endpoint, view_func) ==
    LET added == [app EXCEPT !.url_map = @ \cup {<<rule, endpoint>>}]
    IN IF /\ endpoint \in DOMAIN app.view_functions
          /\ app.view_functions[endpoint] # view_func
       THEN [raised |-> TRUE, app |-> added]
       ELSE [raised |-> FALSE,
             app |-> [added EXCEPT !.view_functions = (endpoint :> view_func) @@ @]]

\* @app.route(rule) on a function named endpoint.
route(app, rule, endpoint) == add_url_rule(app, rule, endpoint, app.name \o "." \o endpoint).app

\* The application of app.py after its import (lines 14, 573-1020).
OriginalRoutes ==
    <<<<"/", "index">>, <<"/upload", "upload_file">>, <<"/analyze", "analyze">>,
      <<"/download/<analysis_id>", "download_results">>,
      <<"/api/validate_columns", "validate_columns">>, <<"/load-sample", "load_sample">>,
      <<"/configure", "configure">>, <<"/ping", "ping">>, <<"/health", "health">>>>

RECURSIVE WithRoutes(_, _, _)
WithRoutes(app, routes, i) ==
    IF i > Len(routes) THEN app
    ELSE WithRoutes(route(app, routes[i][1], routes[i][2]), routes, i + 1)

OriginalApp == WithRoutes([NoApp EXCEPT !.name = "app"], OriginalRoutes, 1)

\* `from app import app` (line 37) succeeds when every import of app.py does
\* and its folders can be made.
ImportSucceeds(env) == Packages \subseteq env.installed /\ env.folders

ImportError(env) ==
    IF Packages \subseteq env.installed THEN "OSError" ELSE "ModuleNotFoundError"

NotCreated ==
    [pc |-> "start", app |-> NoApp, original_app |-> NoApp, imported |-> FALSE,
     error |-> "none", returned |-> NoApp]

Undeployed == environment = LocalEnvironment /\ application = NotCreated

(***************************************************************************)
(* State machine.  schools_loaded is `schools_df is not None`.  `last`     *)
(* records the latest operation: its arguments, whether the call of        *)
(* analyze_upgrade_needs returned ("ok") or raised, and what it returned;  *)
(* `history` the invocations of analyze_upgrade_needs so far, csv_file the *)
(* file last given to load_data, requests the /analyze requests in         *)
(* progress on the threaded server.                                        *)
(***************************************************************************)
Run(id, outcome, returned) == [analysis_id |-> id, outcome |-> outcome, result |-> returned]

Init ==
    /\ schools_df \in WorkingSets
    /\ schools_loaded = TRUE
    /\ upgrade_candidates = <<>>
    /\ search_radius_km = DefaultRadius
    /\ analysis_id = 0
    /\ last = [op |-> "load_data", form |-> DefaultForm, args |-> DefaultArgs,
               outcome |-> "ok", result |-> <<>>]
    /\ csv_file = NoFile
    /\ history = <<>>
    /\ requests = <<>>
    /\ Undeployed

\* analyze_upgrade_needs called on the analyzer with the given arguments.
analyze_upgrade_needs(op, form, args) ==
    /\ search_radius_km' = args.radius_km
    /\ analysis_id' = analysis_id + 1
    /\ IF AnalysisOutcome(args) = "ok"
       THEN LET returned == AnalysisResult(schools_df, args)
            IN /\ upgrade_candidates' = StoredCandidates(returned)
               /\ last' = [op |-> op, form |-> form, args |-> args,
                           outcome |-> "ok", result |-> returned]
               /\ history' = Append(history, Run(analysis_id + 1, "ok", returned))
       ELSE /\ UNCHANGED upgrade_candidates
            /\ last' = [op |-> op, form |-> form, args |-> args,
                        outcome |-> AnalysisOutcome(args), result |-> <<>>]
            /\ history' = Append(history,
                                 Run(analysis_id + 1, AnalysisOutcome(args), <<>>))
    /\ UNCHANGED <<deployment, schools_df, schools_loaded, csv_file, requests>>

\* The /analyze handler: the form is turned into arguments (lines 651-675)
\* and the method is called without max_candidates (lines 691-699).
SelectedList(values) ==
    IF Len(values) = 0 \/ IsIn("all", values) THEN <<>> ELSE values

IncludeFunctional(functional_status) ==
    LET include_functional == IsIn("functional", functional_status)
        include_non_functional == IsIn("non_functional", functional_status)
    IN IF ~include_functional /\ ~include_non_functional
       THEN TRUE
       ELSE include_functional

FormArgs(form) ==
    [radius_km |-> form.radius,
     min_enrollment |-> form.min_enrollment,
     max_candidates |-> DefaultMaxCandidates,
     districts |-> SelectedList(form.districts),
     include_functional |-> IncludeFunctional(form.functional_status),
     include_non_functional |-> IsIn("non_functional", form.functional_status),
     analyze_levels |-> SelectedList(form.analyze_levels),
     genders |-> SelectedList(form.genders)]

analyze(form) ==
    IF ~schools_loaded
    THEN /\ last' = [op |-> "analyze", form |-> form, args |-> FormArgs(form),
                     outcome |-> "No data loaded", result |-> <<>>]
         /\ UNCHANGED <<deployment, schools_df, schools_loaded, upgrade_candidates,
                        search_radius_km, analysis_id, csv_file, history, requests>>
    ELSE analyze_upgrade_needs("analyze", form, FormArgs(form))

\* A first request: a direct call of the method, or a POST to /analyze.
AnalyzeUpgradeNeeds ==
    /\ analysis_id = 0
    /\ \E args \in CallArgs :
           analyze_upgrade_needs("analyze_upgrade_needs", DefaultForm, args)

Analyze ==
    /\ analysis_id = 0
    /\ \E form \in Forms : analyze(form)

\* The same request made again, the working set unchanged.
RepeatCall ==
    /\ 0 < analysis_id
    /\ analysis_id < MaxRuns
    /\ IF last.op = "analyze"
       THEN analyze(last.form)
       ELSE analyze_upgrade_needs(last.op, last.form, last.args)

Next == AnalyzeUpgradeNeeds \/ Analyze \/ RepeatCall

Spec == Init /\ [][Next]_vars

\* A single request on each working set.  A repeated request runs on the same
\* working set with the same arguments, so what a property says of the pool
\* of one call is settled by the first request alone.
FirstRequest == AnalyzeUpgradeNeeds \/ Analyze

FirstRequestSpec == Init /\ [][FirstRequest]_vars

(***************************************************************************)
(* A session from the construction of the analyzer (lines 49-53, 571): an  *)
(* upload, then up to MaxRuns invocations with any of the session's        *)
(* requests.                                                               *)
(***************************************************************************)
SessionInit ==
    /\ schools_df = <<>>
    /\ schools_loaded = FALSE
    /\ upgrade_candidates = <<>>
    /\ search_radius_km = DefaultRadius
    /\ analysis_id = 0
    /\ last = [op |-> "init", form |-> DefaultForm, args |-> DefaultArgs,
               outcome |-> "ok", result |-> <<>>]
    /\ csv_file = NoFile
    /\ history = <<>>
    /\ requests = <<>>
    /\ Undeployed

\* analyzer.load_data(path) as called by upload_file (line 613); read_csv raises
\* on an unreadable file, before anything is assigned.
LoadFile(file) ==
    /\ csv_file' = file
    /\ IF file.readable
       THEN /\ schools_df' = load_data(file)
            /\ schools_loaded' = TRUE
            /\ last' = [op |-> "load_data", form |-> DefaultForm,
                        args |-> DefaultArgs, outcome |-> "ok", result |-> <<>>]
       ELSE /\ UNCHANGED <<schools_df, schools_loaded>>
            /\ last' = [op |-> "load_data", form |-> DefaultForm,
                        args |-> DefaultArgs, outcome |-> "Error loading file",
                        result |-> <<>>]
    /\ UNCHANGED <<deployment, upgrade_candidates, search_radius_km, analysis_id, history, requests>>

LoadData ==
    /\ ~schools_loaded
    /\ \E file \in CsvFiles : LoadFile(file)

SessionCall ==
    /\ Len(history) < MaxRuns
    /\ \E args \in SessionArgs :
           analyze_upgrade_needs("analyze_upgrade_needs", DefaultForm, args)

SessionAnalyze ==
    /\ Len(history) < MaxRuns
    /\ \E form \in SessionForms : analyze(form)

SessionNext == LoadData \/ SessionCall \/ SessionAnalyze

SessionSpec == SessionInit /\ [][SessionNext]_vars

(***************************************************************************)
(* download_results(analysis_id) (lines 863-885): what a download request  *)
(* is answered in the current state.                                       *)
(***************************************************************************)
download_results(requested_id) ==
    IF analysis_id # requested_id \/ Len(upgrade_candidates) = 0
    THEN [served |-> FALSE, file |-> <<>>]
    ELSE [served |-> TRUE, file |-> upgrade_candidates]

(***************************************************************************)
(* The server over its lifetime: uploads (each replaces the working set,   *)
(* lines 58 and 613), up to MaxRuns invocations of the analysis and        *)
(* download requests, in any order.  The files hold different schools: the *)
(* second file's BemisCodes follow the first's.                            *)
(***************************************************************************)
Renumbered(rows) == [i \in 1..Len(rows) |-> [rows[i] EXCEPT !.BemisCode = @ + NumSchools]]

FirstFile == File(AllColumns, [i \in SchoolIds |-> [SchoolLevel |-> "Primary"]])

SecondFile == [FirstFile EXCEPT !.rows = Renumbered(@)]

ServerFiles ==
    {FirstFile, SecondFile, [FirstFile EXCEPT !.rows = Take(@, 1)],
     [SecondFile EXCEPT !.rows = Take(@, 2)], NoFile}

\* The identifiers a download URL can carry: those of the runs, and one that
\* no run was given.
RequestedIds == 1..(MaxRuns + 1)

Upload == \E file \in ServerFiles : LoadFile(file)

ServerCall ==
    /\ Len(history) < MaxRuns
    /\ \E args \in SessionArgs :
           analyze_upgrade_needs("analyze_upgrade_needs", DefaultForm, args)

ServerAnalyze ==
    /\ Len(history) < MaxRuns
    /\ \E form \in SessionForms \cup {DefaultForm} : analyze(form)

\* GET /download/<analysis_id>: the file is written from the stored list
\* (line 874) and sent, or the request is redirected (lines 866-868).
Download ==
    /\ \E requested_id \in RequestedIds :
           last' = [op |-> "download_results", form |-> DefaultForm, args |-> DefaultArgs,
                    outcome |-> IF download_results(requested_id).served
                                THEN "served"
                                ELSE "No analysis results found or expired",
                    result |-> download_results(requested_id).file,
                    requested_id |-> requested_id]
    /\ UNCHANGED <<deployment, schools_df, schools_loaded, upgrade_candidates, search_radius_km,
                   analysis_id, csv_file, history, requests>>

ServerNext == Upload \/ ServerCall \/ ServerAnalyze \/ Download

ServerSpec == SessionInit /\ [][ServerNext]_vars

(***************************************************************************)
(* Overlapping /analyze requests on the threaded server (run_server.py     *)
(* line 28, threaded=True): every request runs the handler in a thread of  *)
(* its own on the one global analyzer.  A step is one access to the        *)
(* analyzer's attributes; the selection between lines 205 and 322 reads    *)
(* only schools_df, which no request writes.                               *)
(***************************************************************************)
NumRequests == 2

Threads == 1..NumRequests

ThreadedWorkingSets ==
    {Frame([i \in SchoolIds |-> [District |-> "A"]]),
     Frame([i \in SchoolIds |-> [SchoolLevel |-> "Primary"]])}

ThreadedForms ==
    {DefaultForm, [DefaultForm EXCEPT !.radius = 3],
     [DefaultForm EXCEPT !.analyze_levels = <<"Higher Secondary">>]}

NewRequest(form) ==
    [pc |-> "line203", form |-> form, own_id |-> 0, selected |-> <<>>,
     returned |-> <<>>, handed_id |-> 0]

ThreadedInit ==
    /\ schools_df \in ThreadedWorkingSets
    /\ schools_loaded = TRUE
    /\ upgrade_candidates = <<>>
    /\ search_radius_km = DefaultRadius
    /\ analysis_id = 0
    /\ last = [op |-> "load_data", form |-> DefaultForm, args |-> DefaultArgs,
               outcome |-> "ok", result |-> <<>>]
    /\ csv_file = NoFile
    /\ history = <<>>
    /\ requests \in [Threads -> {NewRequest(form) : form \in ThreadedForms}]
    /\ Undeployed

\* self.search_radius_km = radius_km  (line 203)
SetRadius(t) ==
    /\ requests[t].pc = "line203"
    /\ search_radius_km' = FormArgs(requests[t].form).radius_km
    /\ requests' = [requests EXCEPT ![t].pc = "line204"]
    /\ UNCHANGED <<deployment, schools_df, schools_loaded, upgrade_candidates, analysis_id, last,
                   csv_file, history>>

\* self.analysis_id = str(uuid.uuid4())  (line 204)
SetAnalysisId(t) ==
    /\ requests[t].pc = "line204"
    /\ analysis_id' = analysis_id + 1
    /\ requests' = [requests EXCEPT ![t].pc = "line205", ![t].own_id = analysis_id + 1]
    /\ UNCHANGED <<deployment, schools_df, schools_loaded, upgrade_candidates, search_radius_km,
                   last, csv_file, history>>

\* Lines 205-323: the selection, and the assignment of line 323.
Select(t) ==
    /\ requests[t].pc = "line205"
    /\ LET selected == AnalysisResult(schools_df, FormArgs(requests[t].form))
       IN /\ upgrade_candidates' = StoredCandidates(selected)
          /\ requests' = [requests EXCEPT ![t].pc = "line325", ![t].selected = selected]
          /\ history' = Append(history, Run(requests[t].own_id, "ok", selected))
    /\ UNCHANGED <<deployment, schools_df, schools_loaded, search_radius_km, analysis_id, last,
                   csv_file>>

\* return self.upgrade_candidates  (line 325): the attribute is read again.
Return(t) ==
    /\ requests[t].pc = "line325"
    /\ requests' = [requests EXCEPT ![t].pc = "line701", ![t].returned = upgrade_candidates]
    /\ UNCHANGED <<deployment, schools_df, schools_loaded, upgrade_candidates, search_radius_km,
                   analysis_id, last, csv_file, history>>

\* Lines 701-703 and 855-857: the handler stores the list again when it is not
\* empty, and otherwise answers with a warning and no identifier.
RouteStore(t) ==
    /\ requests[t].pc = "line701"
    /\ IF Len(requests[t].returned) > 0
       THEN /\ upgrade_candidates' = requests[t].returned
            /\ requests' = [requests EXCEPT ![t].pc = "line854"]
       ELSE /\ UNCHANGED upgrade_candidates
            /\ requests' = [requests EXCEPT ![t].pc = "done"]
    /\ UNCHANGED <<deployment, schools_df, schools_loaded, search_radius_km, analysis_id, last,
                   csv_file, history>>

\* render_template(..., analysis_id=analyzer.analysis_id)  (lines 849-854)
Render(t) ==
    /\ requests[t].pc = "line854"
    /\ requests' = [requests EXCEPT ![t].pc = "done", ![t].handed_id = analysis_id]
    /\ UNCHANGED <<deployment, schools_df, schools_loaded, upgrade_candidates, search_radius_km,
                   analysis_id, last, csv_file, history>>

RequestSetsRadius == \E t \in Threads : SetRadius(t)

RequestSetsAnalysisId == \E t \in Threads : SetAnalysisId(t)

RequestSelects == \E t \in Threads : Select(t)

RequestReturns == \E t \in Threads : Return(t)

RequestStores == \E t \in Threads : RouteStore(t)

RequestRenders == \E t \in Threads : Render(t)

ThreadedNext ==
    \/ RequestSetsRadius
    \/ RequestSetsAnalysisId
    \/ RequestSelects
    \/ RequestReturns
    \/ RequestStores
    \/ RequestRenders

ThreadedSpec == ThreadedInit /\ [][ThreadedNext]_vars

(***************************************************************************)
(* District-scale working sets: enough districts and enough schools of one *)
(* level in one district for the limits of lines 268 and 293 to cut.       *)
(* Every school is 100 km from the next, out of range of every radius.     *)
(***************************************************************************)
NumDistricts == 11
NumRanked == 51

DistrictNames ==
    <<"Awaran", "Barkhan", "Chagai", "Dera Bugti", "Gwadar", "Harnai", "Jaffarabad",
      "Kalat", "Kech", "Kharan", "Khuzdar", "Killa Saifullah", "Lasbela", "Loralai",
      "Mastung", "Ziarat">>

CensusSchool(i, district, status, enrollment) ==
    [BemisCode |-> i, District |-> district, Gender |-> "Boys",
     SchoolLevel |-> "Primary", FunctionalStatus |-> status,
     Building |-> "Yes", BuildingCondition |-> "Good",
     TotalStudentProfileEntered |-> enrollment,
     _xCord |-> DefaultLongitude, _yCord |-> 100 * i]

\* One school per district, Functional or not: with both statuses included
\* the pool lists the Functional ones first (line 257).
DistrictFrames ==
    {[i \in 1..NumDistricts |-> CensusSchool(i, DistrictNames[i], status[i], 30)] :
        status \in [1..NumDistricts -> {"Functional", "Non-Functional"}]}

\* One district: the first k schools have enrollment 25 and the others 30, or
\* all have 30 but school k, which has 15.
RankedFrames ==
    {[i \in 1..NumRanked |->
         CensusSchool(i, DistrictNames[1], "Functional", IF i <= k THEN 25 ELSE 30)] :
        k \in 0..NumRanked}
    \cup {[i \in 1..NumRanked |->
              CensusSchool(i, DistrictNames[1], "Functional", IF i = k THEN 15 ELSE 30)] :
             k \in 1..NumRanked}

CensusWorkingSets == DistrictFrames \cup RankedFrames

AllDistricts == [i \in 1..NumDistricts |-> DistrictNames[i]]

CensusArgs ==
    {DefaultArgs,
     [DefaultArgs EXCEPT !.include_non_functional = TRUE],
     [DefaultArgs EXCEPT !.include_non_functional = TRUE, !.districts = AllDistricts],
     [DefaultArgs EXCEPT !.districts = <<DistrictNames[2], DistrictNames[1], DistrictNames[2]>>],
     [DefaultArgs EXCEPT !.analyze_levels = <<"Primary", "Primary">>]}

CensusForms ==
    {[DefaultForm EXCEPT !.functional_status = <<"functional", "non_functional">>,
                         !.districts = <<DistrictNames[NumDistricts], DistrictNames[1]>>]}

CensusInit ==
    /\ schools_df \in CensusWorkingSets
    /\ schools_loaded = TRUE
    /\ upgrade_candidates = <<>>
    /\ search_radius_km = DefaultRadius
    /\ analysis_id = 0
    /\ last = [op |-> "load_data", form |-> DefaultForm, args |-> DefaultArgs,
               outcome |-> "ok", result |-> <<>>]
    /\ csv_file = NoFile
    /\ history = <<>>
    /\ requests = <<>>
    /\ Undeployed

CensusCall ==
    /\ analysis_id = 0
    /\ \E args \in CensusArgs :
           analyze_upgrade_needs("analyze_upgrade_needs", DefaultForm, args)

CensusAnalyze ==
    /\ analysis_id = 0
    /\ \E form \in CensusForms : analyze(form)

CensusNext == CensusCall \/ CensusAnalyze

CensusSpec == CensusInit /\ [][CensusNext]_vars

(***************************************************************************)
(* The start of the serverless process: `application = create_application()`*)
(* (vercel_app.py line 73), one step per statement group.  No request is   *)
(* served meanwhile.                                                       *)
(***************************************************************************)
server == <<schools_df, schools_loaded, upgrade_candidates, search_radius_km,
            analysis_id, last, csv_file, history, requests>>

VercelInit ==
    /\ schools_df = <<>>
    /\ schools_loaded = FALSE
    /\ upgrade_candidates = <<>>
    /\ search_radius_km = DefaultRadius
    /\ analysis_id = 0
    /\ last = [op |-> "init", form |-> DefaultForm, args |-> DefaultArgs,
               outcome |-> "ok", result |-> <<>>]
    /\ csv_file = NoFile
    /\ history = <<>>
    /\ requests = <<>>
    /\ environment \in Environments
    /\ application = NotCreated

\* Lines 9-33: `from flask import ...` raises out of create_application when
\* flask is missing; otherwise the small application gets its /health route.
\* The folders of lines 20-24 are made inside try/except: pass.
CreateApp ==
    /\ application.pc = "start"
    /\ application' =
           IF "flask" \in environment.installed
           THEN [application EXCEPT
                    !.pc = "line37",
                    !.app = route([NoApp EXCEPT !.name = "create_application"],
                                  "/health", "health")]
           ELSE [application EXCEPT !.pc = "raised", !.error = "ModuleNotFoundError"]
    /\ UNCHANGED <<server, environment>>

\* Line 37: from app import app as original_app
ImportApp ==
    /\ application.pc = "line37"
    /\ application' =
           IF ImportSucceeds(environment)
           THEN [application EXCEPT !.pc = "line43", !.imported = TRUE,
                                    !.original_app = OriginalApp]
           ELSE [application EXCEPT !.pc = "except", !.error = ImportError(environment)]
    /\ UNCHANGED <<server, environment>>

\* Lines 40-45: the configuration is copied, the health check is added to the
\* imported application under the endpoint 'health', and the imported
\* application is returned; an exception goes to line 47.
AddHealthCheck ==
    /\ application.pc = "line43"
    /\ LET added == add_url_rule(application.original_app, "/health", "health",
                                 application.app.view_functions["health"])
       IN application' =
              IF added.raised
              THEN [application EXCEPT !.pc = "except", !.error = "AssertionError",
                                       !.original_app = added.app]
              ELSE [application EXCEPT !.pc = "returned", !.original_app = added.app,
                                       !.returned = added.app]
    /\ UNCHANGED <<server, environment>>

\* Lines 47-70: except Exception: the small application gets '/' and '/debug'
\* and is returned.
Fallback ==
    /\ application.pc = "except"
    /\ LET app == route(route(application.app, "/", "index"), "/debug", "debug")
       IN application' = [application EXCEPT !.pc = "returned", !.app = app,
                                             !.returned = app]
    /\ UNCHANGED <<server, environment>>

VercelNext == CreateApp \/ ImportApp \/ AddHealthCheck \/ Fallback

VercelSpec == VercelInit /\ [][VercelNext]_vars

(***************************************************************************)
(* data_converter.py: BalochistanDataConverter turns the two census        *)
(* workbooks into one CSV file "for the School Upgrade System"; the file   *)
(* is then uploaded and analysed.  A workbook is the sequence of its rows. *)
(***************************************************************************)
\* convert_killa_saifullah_data (lines 23-59): code, district and
\* coordinates are taken from the workbook, the rest are defaults.
convert_killa_saifullah_data(workbook) ==
    [i \in 1..Len(workbook) |->
        [BemisCode |-> workbook[i].BemisCode, District |-> workbook[i].District,
         _xCord |-> workbook[i].Longitude, _yCord |-> workbook[i].Latitude,
         Gender |-> "Mixed", SchoolLevel |-> "Primary",
         FunctionalStatus |-> "Functional", Building |-> "Available",
         BuildingCondition |-> "Unknown", TotalStudentProfileEntered |-> 50]]

\* level_enrollment (lines 93-100) with .fillna(100).
LevelEnrollment(level) ==
    CASE level = "Primary" -> 80
      [] level = "Middle" -> 120
      [] level = "Secondary" -> 200
      [] level = "High" -> 300
      [] level = "Higher Secondary" -> 400
      [] OTHER -> 100

\* The centre of Ziarat (line 104), in km north of the reference parallel.
ZiaratCentre == 42

\* convert_ziarat_data (lines 61-118): the administrative columns are taken
\* from the workbook, the building columns are defaults, the enrollment is
\* estimated from the level and the school is placed 11 to 55 km from the
\* centre of Ziarat (lines 108-114; the offset is the row's draw).
convert_ziarat_data(workbook) ==
    [i \in 1..Len(workbook) |->
        [BemisCode |-> workbook[i].BemisCode, District |-> workbook[i].District,
         Gender |-> workbook[i].Gender, SchoolLevel |-> workbook[i].SchoolLevel,
         FunctionalStatus |-> workbook[i].FunctionalStatus,
         Building |-> "Available", BuildingCondition |-> "Good",
         TotalStudentProfileEntered |-> LevelEnrollment(workbook[i].SchoolLevel),
         _xCord |-> DefaultLongitude, _yCord |-> ZiaratCentre + workbook[i].draw]]

\* drop_duplicates(subset=['BemisCode'], keep='first') (line 145).
DropDuplicates(rows) ==
    SelectSeq([i \in 1..Len(rows) |->
                  [row |-> rows[i],
                   first |-> \A j \in 1..(i - 1) : rows[j].BemisCode # rows[i].BemisCode]],
              LAMBDA entry : entry.first)

\* merge_and_save_data (lines 120-170): the CSV file written by to_csv.
merge_and_save_data(killa, ziarat) ==
    LET kept == DropDuplicates(convert_killa_saifullah_data(killa)
                                   \o convert_ziarat_data(ziarat))
    IN [readable |-> TRUE, columns |-> AllColumns,
        rows |-> [i \in 1..Len(kept) |-> kept[i].row]]

\* The workbooks: up to two surveyed schools of Killa Saifullah, 3 km apart,
\* and two schools of Ziarat of any level and status.
KillaRow(i) ==
    [BemisCode |-> i, District |-> "Killa Saifullah", Longitude |-> DefaultLongitude,
     Latitude |-> 78 + 3 * i]

KillaWorkbooks == {<<>>, <<KillaRow(1)>>, <<KillaRow(1), KillaRow(2)>>}

ZiaratRow(i, level, status, draw) ==
    [BemisCode |-> 2 + i, District |-> "Ziarat", Gender |-> "Boys", SchoolLevel |-> level,
     FunctionalStatus |-> status, draw |-> draw]

ZiaratWorkbooks ==
    {<<ZiaratRow(1, level[1], status[1], 11), ZiaratRow(2, level[2], status[2], draw)>> :
        level \in [1..2 -> {"Primary", "Middle", "Secondary", "High"}],
        status \in [1..2 -> {"Functional", "Non-Functional"}],
        draw \in {14, 55}}

ConverterArgs ==
    {DefaultArgs,
     [DefaultArgs EXCEPT !.include_non_functional = TRUE],
     [DefaultArgs EXCEPT !.radius_km = 3, !.min_enrollment = 0]}

\* python data_converter.py: the merged file is written.
Convert ==
    /\ ~schools_loaded
    /\ ~csv_file.readable
    /\ \E killa \in KillaWorkbooks, ziarat \in ZiaratWorkbooks :
           csv_file' = merge_and_save_data(killa, ziarat)
    /\ UNCHANGED <<deployment, schools_df, schools_loaded, upgrade_candidates,
                   search_radius_km, analysis_id, last, history, requests>>

\* The merged file is uploaded (line 613).
UploadConverted ==
    /\ ~schools_loaded
    /\ csv_file.readable
    /\ LoadFile(csv_file)

ConverterCall ==
    /\ schools_loaded
    /\ Len(history) < 1
    /\ \E args \in ConverterArgs :
           analyze_upgrade_needs("analyze_upgrade_needs", DefaultForm, args)

ConverterAnalyze ==
    /\ schools_loaded
    /\ Len(history) < 1
    /\ analyze([DefaultForm EXCEPT !.functional_status = <<"functional", "non_functional">>])

ConverterNext == Convert \/ UploadConverted \/ ConverterCall \/ ConverterAnalyze

ConverterSpec == SessionInit /\ [][ConverterNext]_vars

(***************************************************************************)
(* Vocabulary of the properties.                                           *)
(***************************************************************************)
Calls == {"analyze_upgrade_needs", "analyze"}

\* The latest operation was an analysis and its call of the method returned.
Returned == last.op \in Calls /\ last.outcome = "ok"

Rows(frame) == {frame[i] : i \in 1..Len(frame)}

SchoolByCode(code) == CHOOSE s \in Rows(schools_df) : s.BemisCode = code

\* The quality pool of the latest call and its per-district slices.
Pool == QualitySchools(schools_df, last.args)

Uncapped(args) ==
    [args EXCEPT !.max_candidates = Len(schools_df) * (Len(args.analyze_levels) + 3) + 1]

\* The list the latest call's inputs produce when no cap applies.
UncappedResult == AnalysisResult(schools_df, Uncapped(last.args))

\* The arguments meet the invocation contract: radius_km > 0, max_candidates > 0.
ValidArgs == last.args.radius_km > 0 /\ last.args.max_candidates > 0

Successor(level) ==
    CASE level = "Primary" -> "Middle"
      [] level = "Middle" -> "High"
      [] level = "High" -> "Higher Secondary"
      [] OTHER -> "none"

\* The number of rows of `frame` of the district and level that lie within
\* radius_km of the school: the raw count of a proximity query.
RawCount(school, level, radius_km, frame) ==
    Cardinality({i \in 1..Len(frame) :
        /\ frame[i].District = school.District
        /\ frame[i].SchoolLevel = level
        /\ calculate_distance_fast(school._yCord, frame[i]._yCord) <= radius_km})

Emitted(school, level) ==
    \E i \in 1..Len(last.result) :
        /\ last.result[i].BemisCode = school.BemisCode
        /\ last.result[i].CurrentLevel = level

\* Enrollment of the school against the 70th percentile of its level in its
\* district's pool.
AtPercentile(school, level) ==
    AtLeastQuantile70(
        school.TotalStudentProfileEntered,
        Column(SelectSeq(Pool, LAMBDA row : /\ row.District = school.District
                                            /\ row.SchoolLevel = level),
               "TotalStudentProfileEntered"))

ProcessedDistricts == DistrictsToProcess(Pool, last.args.districts)

ProcessedLevels ==
    {l \in Rows(AnalyzeLevels(last.args.analyze_levels)) : l \in {"Primary", "Middle", "High"}}

\* The schools the run evaluates for a district and a source level.
Sample(district, level) ==
    Rows(SampledSchools(CurrentLevelSchools(DistrictSchools(Pool, district), level)))

(***************************************************************************)
(* C1.  With max_candidates > 0, the list returned by                      *)
(* analyze_upgrade_needs holds at most max_candidates records.             *)
(***************************************************************************)
C1_CapEnforced ==
    (Returned /\ last.args.max_candidates > 0)
        => Len(last.result) <= last.args.max_candidates

\* A run that the cap cut short: more schools qualify than were returned.
C1_Witness ==
    /\ Returned
    /\ last.args.max_candidates > 0
    /\ Len(last.result) = last.args.max_candidates
    /\ Len(UncappedResult) > last.args.max_candidates

C3_LevelOrderIntegrity ==
    Returned =>
        \A i \in 1..Len(last.result) :
            LET r == last.result[i]
            IN /\ r.CurrentLevel # "Higher Secondary"
               /\ r.CurrentLevel = SchoolByCode(r.BemisCode).SchoolLevel
               /\ r.CurrentLevel = "Primary" => r.RecommendedLevel = "Middle"
               /\ r.CurrentLevel = "Middle" => r.RecommendedLevel = "High"
               /\ r.CurrentLevel = "High" => r.RecommendedLevel = "Higher Secondary"
               /\ r.CurrentLevel \in {"Primary", "Middle", "High"}

\* Higher Secondary was among the levels asked for, a Higher Secondary
\* school was in the pool, and the run still produced a candidate.
C3_Witness ==
    /\ Returned
    /\ IsIn("Higher Secondary", last.args.analyze_levels)
    /\ \E s \in Rows(Pool) : s.SchoolLevel = "Higher Secondary"
    /\ \E i \in 1..Len(last.result) : last.result[i].CurrentLevel = "High"

(***************************************************************************)
(* C4.  A school with a school of its successor level in its district      *)
(* within radius_km in the loaded working set is never emitted, whatever   *)
(* the filters.  (Stated as claimed; the code searches the quality pool.)  *)
(***************************************************************************)
C4_ServedNeverEmitted ==
    (Returned /\ ValidArgs) =>
        \A i \in 1..Len(last.result) :
            LET r == last.result[i]
            IN RawCount(SchoolByCode(r.BemisCode), Successor(r.CurrentLevel),
                        last.args.radius_km, schools_df) = 0

(***************************************************************************)
(* C5.  In a run that does not reach the cap, a sampled school is emitted  *)
(* if and only if its successor-level query is empty and either its raw    *)
(* same-level count (itself included) is <= 2 or its enrollment is >= the  *)
(* 70th percentile of its level in its district's pool.                    *)
(***************************************************************************)
C5_EligibilityRule ==
    (Returned /\ Len(last.result) < last.args.max_candidates) =>
        \A district \in Rows(ProcessedDistricts) : \A level \in ProcessedLevels :
            \A school \in Sample(district, level) :
                Emitted(school, level) <=>
                    /\ RawCount(school, Successor(level), last.args.radius_km, Pool) = 0
                    /\ \/ RawCount(school, level, last.args.radius_km, Pool) <= 2
                       \/ AtPercentile(school, level)

\* A crowded area: two sampled schools with three same-level schools in
\* range and no successor; the one at the percentile is emitted, the other not.
C5_Witness ==
    /\ Returned
    /\ Len(last.result) < last.args.max_candidates
    /\ \E district \in Rows(ProcessedDistricts) : \E level \in ProcessedLevels :
           \E a, b \in Sample(district, level) :
               /\ RawCount(a, Successor(level), last.args.radius_km, Pool) = 0
               /\ RawCount(b, Successor(level), last.args.radius_km, Pool) = 0
               /\ RawCount(a, level, last.args.radius_km, Pool) > 2
               /\ RawCount(b, level, last.args.radius_km, Pool) > 2
               /\ Emitted(a, level)
               /\ ~Emitted(b, level)

(***************************************************************************)
(* C6.  A call repeated with the same arguments over the same working set  *)
(* returns the same candidate list, record for record and in the same      *)
(* order.                                                                  *)
(***************************************************************************)
C6_Idempotent ==
    [][(/\ last.op \in Calls /\ last.outcome = "ok"
        /\ last'.op \in Calls /\ last'.outcome = "ok"
        /\ last'.args = last.args
        /\ schools_df' = schools_df)
           => last'.result = last.result]_vars

\* A second run with the arguments of the first, both with candidates.
C6_Witness ==
    /\ Returned
    /\ analysis_id = 2
    /\ Len(last.result) >= 2
    /\ upgrade_candidates = last.result

(***************************************************************************)
(* C7.  An analysis given include_functional = false and                   *)
(* include_non_functional = false completes and returns what the same      *)
(* request returns with include_functional = true.  (Stated as claimed;    *)
(* only the /analyze handler applies the default.)                         *)
(***************************************************************************)
NoStatusSelected ==
    IF last.op = "analyze"
    THEN /\ ~IsIn("functional", last.form.functional_status)
         /\ ~IsIn("non_functional", last.form.functional_status)
    ELSE ~last.args.include_functional /\ ~last.args.include_non_functional

FunctionalOnly(args) ==
    [args EXCEPT !.include_functional = TRUE, !.include_non_functional = FALSE]

C7_DefaultsToFunctional ==
    (last.op \in Calls /\ schools_loaded /\ NoStatusSelected) =>
        /\ last.outcome = "ok"
        /\ last.result = AnalysisResult(schools_df, FunctionalOnly(last.args))

\* The /analyze handler alone: a form with no status ticked is answered as the
\* form with only "functional" ticked.
AnalyzeRouteDefaultsToFunctional ==
    (last.op = "analyze" /\ schools_loaded /\ NoStatusSelected) =>
        /\ last.outcome = "ok"
        /\ last.result = AnalysisResult(schools_df, FunctionalOnly(last.args))

(***************************************************************************)
(* C8.  A Functional school with enrollment below min_enrollment is never  *)
(* in the quality pool and never in the candidate list.                    *)
(***************************************************************************)
UnderEnrolled(school) ==
    /\ school.FunctionalStatus = "Functional"
    /\ school.TotalStudentProfileEntered < last.args.min_enrollment

C8_UnderEnrolledExcluded ==
    last.op \in Calls =>
        \A school \in Rows(schools_df) :
            UnderEnrolled(school) =>
                /\ school \notin Rows(Pool)
                /\ \A i \in 1..Len(last.result) :
                       last.result[i].BemisCode # school.BemisCode

\* An under-enrolled Functional school that passes every other gate and has
\* no school of its own or its successor level in range, in a completed run
\* that emitted another school.
C8_Witness ==
    /\ Returned
    /\ ValidArgs
    /\ last.result # <<>>
    /\ \E school \in Rows(schools_df) :
           /\ UnderEnrolled(school)
           /\ school.Building = "Yes"
           /\ school.BuildingCondition = "Good"
           /\ school.SchoolLevel = "Primary"
           /\ RawCount(school, "Primary", last.args.radius_km, schools_df) = 1
           /\ RawCount(school, "Middle", last.args.radius_km, schools_df) = 0

(***************************************************************************)
(* C9.  As claimed: in every record with the 'only ... school in area'     *)
(* wording NearbySameLevelSchools is the raw same-level count minus 1 and  *)
(* is >= 0, and the raw same-level count of an emitted school is >= 1      *)
(* (arguments within the invocation contract).                             *)
(***************************************************************************)
RawSameLevel(r) ==
    RawCount(SchoolByCode(r.BemisCode), r.CurrentLevel, last.args.radius_km, Pool)

OnlyWording(r) == r.UpgradeReason.wording = "only school in area"

C9_SelfAlwaysCounted ==
    (Returned /\ ValidArgs) =>
        \A i \in 1..Len(last.result) :
            LET r == last.result[i]
            IN /\ RawSameLevel(r) >= 1
               /\ OnlyWording(r) =>
                      /\ r.NearbySameLevelSchools = RawSameLevel(r) - 1
                      /\ r.NearbySameLevelSchools >= 0

(***************************************************************************)
(* C9, amended.  In every record with the 'only' wording                   *)
(* NearbySameLevelSchools is the raw same-level count minus 1 when that    *)
(* count is >= 1 and 0 when it is 0, so it is >= 0; the raw count is >= 1  *)
(* whenever radius_km >= 0 and the school's own latitude is finite.        *)
(***************************************************************************)
C9_SelfExclusionAccounting ==
    Returned =>
        \A i \in 1..Len(last.result) :
            LET r == last.result[i]
            IN /\ (last.args.radius_km >= 0 /\ r.Latitude # NonFinite)
                      => RawSameLevel(r) >= 1
               /\ OnlyWording(r) =>
                      /\ r.NearbySameLevelSchools =
                             (IF RawSameLevel(r) >= 1 THEN RawSameLevel(r) - 1 ELSE 0)
                      /\ r.NearbySameLevelSchools >= 0

\* With a valid radius, one emitted school whose own distance cannot be
\* computed (raw count 0) beside one that counts itself (raw count 1).
C9_Witness ==
    /\ Returned
    /\ ValidArgs
    /\ \E i, j \in 1..Len(last.result) :
           /\ OnlyWording(last.result[i]) /\ RawSameLevel(last.result[i]) = 0
           /\ last.result[i].NearbySameLevelSchools = 0
           /\ OnlyWording(last.result[j]) /\ RawSameLevel(last.result[j]) = 1

(***************************************************************************)
(* C10.  For a target school, a target level and a pool, the Proximity     *)
(* Filter's result for a radius is contained in its result for any larger  *)
(* radius, so the count never decreases, and the sampled schools found     *)
(* adequately served only grow with the radius.  Checked between the       *)
(* radius of the latest call and every other radius, over its pool.        *)
(***************************************************************************)
NearbyIn(pool, target, level, radius_km) ==
    find_nearby_schools_fast(target, level, radius_km,
                             DistrictSchools(pool, target.District))

ServedIn(pool, radius_km) ==
    {school \in Rows(pool) :
        /\ school.SchoolLevel \in {"Primary", "Middle", "High"}
        /\ AdequatelyServed(NearbyIn(pool, school, Successor(school.SchoolLevel),
                                     radius_km))}

\* (A level no pool school has gives the empty result at every radius.)
LevelsIn(pool) == {school.SchoolLevel : school \in Rows(pool)}

Contained(small, large) == Rows(small) \subseteq Rows(large) /\ Len(small) <= Len(large)

C10_RadiusMonotone ==
    LET pool == Pool
        radius_km == last.args.radius_km
        served == ServedIn(pool, radius_km)
    IN /\ \A other \in Radii :
              /\ other < radius_km => ServedIn(pool, other) \subseteq served
              /\ other > radius_km => served \subseteq ServedIn(pool, other)
       /\ \A target \in Rows(pool) : \A level \in LevelsIn(pool) :
              LET at_radius == NearbyIn(pool, target, level, radius_km)
              IN \A other \in Radii \ {radius_km} :
                     IF other < radius_km
                     THEN Contained(NearbyIn(pool, target, level, other), at_radius)
                     ELSE Contained(at_radius, NearbyIn(pool, target, level, other))

\* A pool in which a larger radius finds strictly more schools and serves
\* strictly more of them.
C10_Witness ==
    /\ Returned
    /\ \E r1 \in Radii : \E r2 \in Radii :
           /\ 0 <= r1
           /\ r1 < r2
           /\ last.args.radius_km \in {r1, r2}
           /\ ServedIn(Pool, r1) # ServedIn(Pool, r2)
           /\ \E target \in Rows(Pool) :
                  Len(NearbyIn(Pool, target, target.SchoolLevel, r1))
                      < Len(NearbyIn(Pool, target, target.SchoolLevel, r2))

(***************************************************************************)
(* C11.  As claimed: a call with a negative radius or a non-positive       *)
(* max_candidates is rejected with a validation error before the selection *)
(* runs: it returns no candidate and leaves the stored candidate list and  *)
(* the run identifier as they were.  (The code validates neither.)         *)
(***************************************************************************)
InvalidArgs(args) == args.radius_km < 0 \/ args.max_candidates <= 0

C11_InvalidRejected ==
    [][(last'.op \in Calls /\ InvalidArgs(last'.args))
          => /\ last'.outcome = "ValidationError"
             /\ last'.result = <<>>
             /\ upgrade_candidates' = upgrade_candidates
             /\ analysis_id' = analysis_id]_vars

(***************************************************************************)
(* C12.  As claimed: a call whose quality pool is empty, and a call none   *)
(* of whose selected levels has a successor, returns normally with an      *)
(* empty candidate list.  (With neither status flag set the pool is empty  *)
(* and the call raises: C7.)                                               *)
(***************************************************************************)
NoSuccessorLevel == ProcessedLevels = {}

C12_EmptyPoolReturnsEmpty ==
    (last.op \in Calls /\ schools_loaded /\ (Pool = <<>> \/ NoSuccessorLevel)) =>
        /\ last.outcome = "ok"
        /\ last.result = <<>>

\* The same for the calls that select a status: these return the empty list.
EmptyPoolReturnsEmptyWhenStatusSelected ==
    (/\ last.op \in Calls /\ schools_loaded
     /\ QualityPoolHasColumns(last.args)
     /\ (Pool = <<>> \/ NoSuccessorLevel)) =>
        /\ last.outcome = "ok"
        /\ last.result = <<>>
        /\ upgrade_candidates = <<>>

(***************************************************************************)
(* C13.  With a district allow-list every candidate's District is in it,   *)
(* with a gender allow-list every candidate's Gender is in it, and a       *)
(* record's District and Gender are those of its school.                   *)
(***************************************************************************)
C13_ScopeRespected ==
    Returned =>
        \A i \in 1..Len(last.result) :
            LET r == last.result[i]
            IN /\ Len(last.args.districts) > 0 => IsIn(r.District, last.args.districts)
               /\ Len(last.args.genders) > 0 => IsIn(r.Gender, last.args.genders)
               /\ r.District = SchoolByCode(r.BemisCode).District
               /\ r.Gender = SchoolByCode(r.BemisCode).Gender

WithoutGenders(args) == [args EXCEPT !.genders = <<>>]

\* A run with a gender allow-list that emitted a school, over a working set
\* with a school of another gender that the same call without the list emits.
C13_Witness ==
    /\ Returned
    /\ Len(last.args.genders) > 0
    /\ last.result # <<>>
    /\ \E school \in Rows(schools_df) :
           /\ ~IsIn(school.Gender, last.args.genders)
           /\ \E r \in Rows(AnalysisResult(schools_df, WithoutGenders(last.args))) :
                  r.BemisCode = school.BemisCode

(***************************************************************************)
(* C14.  As claimed: a query of the Proximity Filter returns exactly the   *)
(* pool members of the target's district and of the target level at        *)
(* distance <= radius_km, each once, and on a same-level query the target  *)
(* itself is among them (arguments within the invocation contract).        *)
(* Stated for the queries of the latest call over its pool, and for        *)
(* find_nearby_schools over the working set.                               *)
(***************************************************************************)
Qualifying(frame, target, level, radius_km) ==
    {s \in Rows(frame) :
        /\ s.District = target.District
        /\ s.SchoolLevel = level
        /\ calculate_distance_fast(target._yCord, s._yCord) <= radius_km}

ExactlyQualifying(result, frame, target, level, radius_km) ==
    /\ Rows(result) = Qualifying(frame, target, level, radius_km)
    /\ Len(result) = Cardinality(Qualifying(frame, target, level, radius_km))

QueryLevels(target) == {target.SchoolLevel, Successor(target.SchoolLevel)}

SelfInRange(target, radius_km) == radius_km >= 0 /\ target._yCord # NonFinite

HighestWording(r) == r.UpgradeReason.wording = "highest enrollment in area"

C19_WordingAfterExclusion ==
    (Returned /\ ValidArgs) =>
        \A i \in 1..Len(last.result) :
            LET r == last.result[i]
            IN /\ HighestWording(r) <=> RawSameLevel(r) - 1 > 1
               /\ ~HighestWording(r) <=> OnlyWording(r)

(***************************************************************************)
(* C19, amended.  A record has the 'highest enrollment in area' wording    *)
(* exactly when the raw same-level count of its school (the school itself  *)
(* included) is greater than 1, that is when at least one other same-level *)
(* school of the pool is within radius; otherwise it has the 'only <level> *)
(* school in area' wording, naming its current level.  Both name the       *)
(* recommended level and the radius.                                       *)
(***************************************************************************)
C19_WordingOnRawCount ==
    Returned =>
        \A i \in 1..Len(last.result) :
            LET r == last.result[i]
            IN /\ HighestWording(r) <=> RawSameLevel(r) > 1
               /\ ~HighestWording(r) <=> OnlyWording(r)
               /\ OnlyWording(r) => r.UpgradeReason.only_level = r.CurrentLevel
               /\ r.UpgradeReason.no_school = r.RecommendedLevel
               /\ r.UpgradeReason.within_km = last.args.radius_km

\* One run with a record of a school with exactly one other same-level school
\* in range ('highest' wording) and a record of a school alone in its range.
C19_Witness ==
    /\ Returned
    /\ ValidArgs
    /\ \E i, j \in 1..Len(last.result) :
           /\ RawSameLevel(last.result[i]) = 2
           /\ HighestWording(last.result[i])
           /\ last.result[i].NearbySameLevelSchools = 1
           /\ RawSameLevel(last.result[j]) = 1
           /\ OnlyWording(last.result[j])

(***************************************************************************)
(* C20.  The scenario: three Primary schools of district A, two 5 km       *)
(* apart and the third 40 km and 35 km from them, enrollments 30, 25 and   *)
(* 60, radius 25, min_enrollment 20, no Middle school.  As claimed: each   *)
(* close school has raw same-level count 2 and is flagged exactly when its *)
(* enrollment is at the 70th percentile; the isolated school is flagged    *)
(* with the 'only' wording.                                                *)
(***************************************************************************)
ScenarioSchool(code, enrollment, km_north) ==
    [BemisCode |-> code, District |-> "A", Gender |-> "Boys",
     SchoolLevel |-> "Primary", FunctionalStatus |-> "Functional",
     Building |-> "Yes", BuildingCondition |-> "Good",
     TotalStudentProfileEntered |-> enrollment,
     _xCord |-> DefaultLongitude, _yCord |-> km_north]

Scenario == <<ScenarioSchool(1, 30, 0), ScenarioSchool(2, 25, 5), ScenarioSchool(3, 60, 40)>>

InScenario == Returned /\ schools_df = Scenario /\ last.args = DefaultArgs

RecordOf(code) == CHOOSE r \in Rows(last.result) : r.BemisCode = code

C20_PercentileGoverns ==
    InScenario =>
        /\ \A close \in {Scenario[1], Scenario[2]} :
               /\ RawCount(close, "Primary", DefaultRadius, Pool) = 2
               /\ Emitted(close, "Primary") <=> AtPercentile(close, "Primary")
        /\ Emitted(Scenario[3], "Primary")
        /\ OnlyWording(RecordOf(3))

(***************************************************************************)
(* C20, amended.  In the scenario each close school has raw same-level     *)
(* count 2 and, 2 being <= 2, is flagged whatever its enrollment rank      *)
(* (both are below the 70th percentile, 42), with the 'highest enrollment  *)
(* in area' wording and one nearby same-level school; the isolated school  *)
(* is flagged with the 'only' wording and none.  The list is in            *)
(* descending enrollment: 60, 30, 25.                                      *)
(***************************************************************************)
C20_ScenarioAllFlagged ==
    InScenario =>
        /\ \A close \in {Scenario[1], Scenario[2]} :
               /\ RawCount(close, "Primary", DefaultRadius, Pool) = 2
               /\ ~AtPercentile(close, "Primary")
               /\ Emitted(close, "Primary")
               /\ HighestWording(RecordOf(close.BemisCode))
               /\ RecordOf(close.BemisCode).NearbySameLevelSchools = 1
        /\ AtPercentile(Scenario[3], "Primary")
        /\ RawCount(Scenario[3], "Primary", DefaultRadius, Pool) = 1
        /\ OnlyWording(RecordOf(3))
        /\ RecordOf(3).NearbySameLevelSchools = 0
        /\ Column(last.result, "BemisCode") = <<3, 1, 2>>
        /\ \A i \in 1..Len(last.result) : last.result[i].RecommendedLevel = "Middle"

C20_Witness == InScenario /\ Len(last.result) = 3 /\ upgrade_candidates = last.result

(***************************************************************************)
(* C15.  Every invocation of analyze_upgrade_needs that completes leaves   *)
(* as stored candidate list exactly the list it returned, also when that   *)
(* list is empty, and as analysis_id an identifier that differs from the   *)
(* previous one and from that of every earlier invocation.                 *)
(***************************************************************************)
C15_StateReplaced ==
    [][(last'.op \in Calls /\ last'.outcome = "ok")
          => /\ upgrade_candidates' = last'.result
             /\ analysis_id' # analysis_id
             /\ \A i \in 1..Len(history) : history[i].analysis_id # analysis_id'
             /\ history'[Len(history')] = Run(analysis_id', "ok", upgrade_candidates')]_vars

\* A run that returned candidates followed by a run that returned none: the
\* stored list is empty and the identifier is that of the second run.
C15_Witness ==
    /\ Len(history) = 2
    /\ history[1].outcome = "ok" /\ history[1].result # <<>>
    /\ history[2].outcome = "ok" /\ history[2].result = <<>>
    /\ upgrade_candidates = <<>>
    /\ analysis_id = history[2].analysis_id
    /\ analysis_id # history[1].analysis_id

(***************************************************************************)
(* C17.  As claimed: after a successful load_data every school of the      *)
(* working set has a latitude and a longitude that are present and not     *)
(* zero, and a SchoolLevel and a FunctionalStatus that are present.  (The  *)
(* code defaults the two only when the whole column is absent.)            *)
(***************************************************************************)
Loaded == last.op = "load_data" /\ last.outcome = "ok" /\ schools_loaded

C17_LoadedRowsComplete ==
    Loaded =>
        \A row \in Rows(schools_df) :
            /\ row._xCord # NaN /\ row._xCord # 0
            /\ row._yCord # NaN /\ row._yCord # ZeroLatitude
            /\ row.SchoolLevel # Missing
            /\ row.FunctionalStatus # Missing

\* What the code does establish: valid coordinates, a number as enrollment,
\* and the defaults for a file without the column.
LoadedCoordinatesAndColumnDefaults ==
    Loaded =>
        \A row \in Rows(schools_df) :
            /\ row._xCord # NaN /\ row._xCord # 0
            /\ row._yCord # NaN /\ row._yCord # ZeroLatitude
            /\ row.TotalStudentProfileEntered # NaN
            /\ "SchoolLevel" \notin csv_file.columns => row.SchoolLevel = "Primary"
            /\ "FunctionalStatus" \notin csv_file.columns
                   => row.FunctionalStatus = "Functional"

(***************************************************************************)
(* C18.  As claimed: for a pair of schools one of which has an invalid or  *)
(* non-finite latitude both distance functions return infinity, and such a *)
(* school is in no result of the Proximity Filter for another target, nor  *)
(* is any school in the result for such a target.  (The haversine variant  *)
(* computes a distance for a latitude beyond the pole.)                    *)
(***************************************************************************)
InvalidLatitude(lat) == lat = NonFinite \/ lat = NaN \/ OffTheGlobe(lat)

Uncomputable(target, member) ==
    InvalidLatitude(target._yCord) \/ InvalidLatitude(member._yCord)

C18_UncomputableExcluded ==
    (last.op \in Calls /\ schools_loaded) =>
        \A target \in Rows(Pool) : \A member \in Rows(Pool) :
            Uncomputable(target, member) =>
                /\ calculate_distance(target._yCord, member._yCord) = Infinity
                /\ calculate_distance_fast(target._yCord, member._yCord) = Infinity
                /\ member \notin Rows(NearbyIn(Pool, target, member.SchoolLevel,
                                               last.args.radius_km))
                /\ member \notin Rows(find_nearby_schools(target, member.SchoolLevel,
                                                          last.args.radius_km))

\* The same for the latitudes on which the haversine computation raises.
NonFiniteExcluded ==
    (last.op \in Calls /\ schools_loaded) =>
        \A target \in Rows(Pool) : \A member \in Rows(Pool) :
            (target._yCord = NonFinite \/ member._yCord = NonFinite) =>
                /\ calculate_distance(target._yCord, member._yCord) = Infinity
                /\ calculate_distance_fast(target._yCord, member._yCord) = Infinity
                /\ member \notin Rows(NearbyIn(Pool, target, member.SchoolLevel,
                                               last.args.radius_km))
                /\ member \notin Rows(find_nearby_schools(target, member.SchoolLevel,
                                                          last.args.radius_km))

(***************************************************************************)
(* C16.  As claimed: under every interleaving of two /analyze requests the *)
(* analysis_id handed to a caller is that of the caller's own run, and a   *)
(* download with it serves the candidates of that run.  (The requests      *)
(* share the one global analyzer.)                                         *)
(***************************************************************************)
Answered(t) == requests[t].pc = "done" /\ requests[t].handed_id # 0

C16_RunsIsolated ==
    \A t \in DOMAIN requests :
        Answered(t) =>
            /\ requests[t].handed_id = requests[t].own_id
            /\ requests[t].returned = requests[t].selected
            /\ download_results(requests[t].handed_id).served =>
                   download_results(requests[t].handed_id).file = requests[t].selected

\* Requests that do not overlap: a request answered before any other request
\* has started holds its own identifier, and a download serves its candidates.
SerialRequestIsolated ==
    \A t \in DOMAIN requests :
        (Answered(t) /\ \A u \in DOMAIN requests \ {t} : requests[u].pc = "line203") =>
            /\ requests[t].handed_id = requests[t].own_id
            /\ requests[t].returned = requests[t].selected
            /\ download_results(requests[t].handed_id).served
            /\ download_results(requests[t].handed_id).file = requests[t].selected

(***************************************************************************)
(* C23.  Every school of the quality pool is a school of the working set,  *)
(* occurs in the pool exactly once and satisfies one of the two gates:     *)
(* include_functional holds and the school is Functional with enrollment   *)
(* >= min_enrollment, Building = 'Yes' and BuildingCondition other than    *)
(* 'Dangerous Condition'; or include_non_functional holds and the school   *)
(* is not Functional with Building = 'Yes'.  Every candidate is a school   *)
(* of this pool.                                                           *)
(***************************************************************************)
PassesFunctionalGate(school) ==
    /\ last.args.include_functional
    /\ school.FunctionalStatus = "Functional"
    /\ school.TotalStudentProfileEntered >= last.args.min_enrollment
    /\ school.Building = "Yes"
    /\ school.BuildingCondition # "Dangerous Condition"

PassesNonFunctionalGate(school) ==
    /\ last.args.include_non_functional
    /\ school.FunctionalStatus # "Functional"
    /\ school.Building = "Yes"

C23_PoolGated ==
    last.op \in Calls =>
        /\ \A i, j \in 1..Len(Pool) : Pool[i].BemisCode = Pool[j].BemisCode => i = j
        /\ \A school \in Rows(Pool) :
               /\ school \in Rows(schools_df)
               /\ PassesFunctionalGate(school) \/ PassesNonFunctionalGate(school)
        /\ \A i \in 1..Len(last.result) :
               \E school \in Rows(Pool) : school.BemisCode = last.result[i].BemisCode

\* A run with both statuses included whose pool holds a Functional and a
\* Non-Functional school and lacks a Non-Functional school without a
\* building, and which emitted a candidate.
C23_Witness ==
    /\ Returned
    /\ last.args.include_functional /\ last.args.include_non_functional
    /\ last.result # <<>>
    /\ \E school \in Rows(Pool) : school.FunctionalStatus = "Functional"
    /\ \E school \in Rows(Pool) : school.FunctionalStatus # "Functional"
    /\ \E school \in Rows(schools_df) :
           /\ school.FunctionalStatus # "Functional"
           /\ school.Building = "No"
           /\ school \notin Rows(Pool)

(***************************************************************************)
(* C28.  As claimed: the BemisCodes of the working set being unique, no    *)
(* school appears more than once in a returned candidate list, whatever    *)
(* the districts and analyze_levels arguments, lists that name a level or  *)
(* a district twice included.  (The level loop runs once per list entry.)  *)
(***************************************************************************)
UniqueBemisCodes ==
    \A i, j \in 1..Len(schools_df) : schools_df[i].BemisCode = schools_df[j].BemisCode => i = j

C28_NoSchoolTwice ==
    (Returned /\ UniqueBemisCodes) =>
        \A i, j \in 1..Len(last.result) :
            last.result[i].BemisCode = last.result[j].BemisCode => i = j

DistinctEntries(list) == \A i, j \in 1..Len(list) : list[i] = list[j] => i = j

\* The same for the calls whose analyze_levels names no level twice.
NoSchoolTwiceWhenLevelsDistinct ==
    (Returned /\ UniqueBemisCodes /\ DistinctEntries(last.args.analyze_levels)) =>
        \A i, j \in 1..Len(last.result) :
            last.result[i].BemisCode = last.result[j].BemisCode => i = j

(***************************************************************************)
(* C24.  As claimed: the returned list is in insertion order: the          *)
(* candidates of one district are contiguous and the districts follow      *)
(* their first occurrence in the quality pool; within a district the       *)
(* candidates follow the order of the analysed source levels; the          *)
(* candidates of one district and level are in non-increasing enrollment   *)
(* order.  (A level named twice in analyze_levels is passed twice: C28.)   *)
(***************************************************************************)
FirstIndexIn(frame, district) ==
    CHOOSE i \in 1..Len(frame) :
        /\ frame[i].District = district
        /\ \A j \in 1..(i - 1) : frame[j].District # district

AnalysedLevels == AnalyzeLevels(last.args.analyze_levels)

DistrictAndLevelOrder(result) ==
    \A i, j \in 1..Len(result) :
        i < j =>
            /\ FirstIndexIn(Pool, result[i].District) <= FirstIndexIn(Pool, result[j].District)
            /\ result[i].District = result[j].District =>
                   \E p, q \in 1..Len(AnalysedLevels) :
                       /\ p <= q
                       /\ AnalysedLevels[p] = result[i].CurrentLevel
                       /\ AnalysedLevels[q] = result[j].CurrentLevel

C24_InsertionOrder ==
    Returned =>
        /\ DistrictAndLevelOrder(last.result)
        /\ \A i, j \in 1..Len(last.result) :
               (/\ i < j
                /\ last.result[i].District = last.result[j].District
                /\ last.result[i].CurrentLevel = last.result[j].CurrentLevel)
                   => last.result[i].TotalStudentProfileEntered
                          >= last.result[j].TotalStudentProfileEntered

\* One slot per pass of the level loop: the districts of the pool in order of
\* first occurrence, and for each the entries of the analysed levels.
PoolDistricts == Unique(Column(Pool, "District"))

Passes ==
    [n \in 1..(Len(PoolDistricts) * Len(AnalysedLevels)) |->
        [District |-> PoolDistricts[((n - 1) \div Len(AnalysedLevels)) + 1],
         CurrentLevel |-> AnalysedLevels[((n - 1) % Len(AnalysedLevels)) + 1]]]

\* The records from position i on fill the passes from k on, each pass taking
\* a run of records of its district and level in non-increasing enrollment.
RECURSIVE InBlocks(_, _, _, _)
InBlocks(result, i, k, started) ==
    IF i > Len(result) THEN TRUE
    ELSE IF k > Len(Passes) THEN FALSE
    ELSE IF /\ result[i].District = Passes[k].District
            /\ result[i].CurrentLevel = Passes[k].CurrentLevel
            /\ started => result[i - 1].TotalStudentProfileEntered
                              >= result[i].TotalStudentProfileEntered
         THEN InBlocks(result, i + 1, k, TRUE)
         ELSE InBlocks(result, i, k + 1, FALSE)

\* What holds for every call: the district and level order, and the list
\* splits into one block per pass of the level loop, each in non-increasing
\* enrollment order; with the levels named once each this is the claim.
InsertionOrderPerPass ==
    Returned =>
        /\ DistrictAndLevelOrder(last.result)
        /\ InBlocks(last.result, 1, 1, FALSE)

InsertionOrderWhenLevelsDistinct ==
    (Returned /\ DistinctEntries(last.args.analyze_levels)) =>
        /\ DistrictAndLevelOrder(last.result)
        /\ \A i, j \in 1..Len(last.result) :
               (/\ i < j
                /\ last.result[i].District = last.result[j].District
                /\ last.result[i].CurrentLevel = last.result[j].CurrentLevel)
                   => last.result[i].TotalStudentProfileEntered
                          >= last.result[j].TotalStudentProfileEntered

(***************************************************************************)
(* C21.  Without a district allow-list only the first 10 distinct          *)
(* districts of the quality pool, in pool order, are processed, so every   *)
(* candidate's district is one of those 10; with an allow-list no such     *)
(* limit applies and every listed district present in the pool is          *)
(* processed.  A processed district is one whose sampled schools are       *)
(* emitted exactly when eligible (in a run that does not reach the cap);   *)
(* a district that is not processed has no candidate.                      *)
(***************************************************************************)
DistrictsOf(frame) == {frame[i].District : i \in 1..Len(frame)}

\* The position of a district among the distinct districts of the pool.
DistrictRank(district) ==
    Cardinality({d \in DistrictsOf(Pool) :
                    FirstIndexIn(Pool, d) <= FirstIndexIn(Pool, district)})

Eligible(school, level) ==
    /\ RawCount(school, Successor(level), last.args.radius_km, Pool) = 0
    /\ \/ RawCount(school, level, last.args.radius_km, Pool) <= 2
       \/ AtPercentile(school, level)

ToBeProcessed(district) ==
    IF Len(last.args.districts) > 0
    THEN IsIn(district, last.args.districts)
    ELSE DistrictRank(district) <= DistrictLimit

C21_DistrictCap ==
    (Returned /\ Len(last.result) < last.args.max_candidates) =>
        /\ \A i \in 1..Len(last.result) :
               /\ last.result[i].District \in DistrictsOf(Pool)
               /\ ToBeProcessed(last.result[i].District)
        /\ \A district \in DistrictsOf(Pool) :
               ToBeProcessed(district) =>
                   \A level \in ProcessedLevels :
                       \A school \in Sample(district, level) :
                           Emitted(school, level) <=> Eligible(school, level)

\* A run without allow-list over a pool of more than 10 districts, whose
\* order is not that of the working set: a district beyond the tenth has an
\* eligible school, and the run emitted none of it.
C21_Witness ==
    /\ Returned
    /\ Len(last.args.districts) = 0
    /\ Cardinality(DistrictsOf(Pool)) > DistrictLimit
    /\ Pool[1].BemisCode # schools_df[1].BemisCode
    /\ \E school \in Rows(Pool) :
           /\ DistrictRank(school.District) > DistrictLimit
           /\ Eligible(school, school.SchoolLevel)
           /\ ~Emitted(school, school.SchoolLevel)
    /\ Len(last.result) = DistrictLimit

(***************************************************************************)
(* C22.  As claimed: within one processed district and level only the 50   *)
(* schools of the pool with the highest enrollment are evaluated, ties in  *)
(* enrollment going to the school earlier in the pool: a school with 50 or *)
(* more schools of its district and level ranked before it is never a      *)
(* candidate, a school with fewer is emitted exactly when eligible (in a   *)
(* run that does not reach the cap), and no (district, level) pair         *)
(* contributes more than 50 candidates.  (A level named twice in           *)
(* analyze_levels is passed twice: C28.)                                   *)
(***************************************************************************)
\* The schools of the pool, of the district and level of the i-th, that come
\* before it in descending enrollment with ties in pool order.
RankedBefore(i) ==
    {j \in 1..Len(Pool) :
        /\ Pool[j].District = Pool[i].District
        /\ Pool[j].SchoolLevel = Pool[i].SchoolLevel
        /\ \/ Pool[j].TotalStudentProfileEntered > Pool[i].TotalStudentProfileEntered
           \/ /\ Pool[j].TotalStudentProfileEntered = Pool[i].TotalStudentProfileEntered
              /\ j < i}

OnlyTheHighestEvaluated ==
    \A i \in 1..Len(Pool) :
        (/\ ToBeProcessed(Pool[i].District)
         /\ Pool[i].SchoolLevel \in ProcessedLevels)
            => IF Cardinality(RankedBefore(i)) >= SampleLimit
               THEN ~Emitted(Pool[i], Pool[i].SchoolLevel)
               ELSE Len(last.result) < last.args.max_candidates
                        => (Emitted(Pool[i], Pool[i].SchoolLevel)
                                <=> Eligible(Pool[i], Pool[i].SchoolLevel))

Contribution(district, level) ==
    Cardinality({i \in 1..Len(last.result) :
                    /\ last.result[i].District = district
                    /\ last.result[i].CurrentLevel = level})

C22_SampleCap ==
    Returned =>
        /\ OnlyTheHighestEvaluated
        /\ \A district \in DistrictsOf(Pool) :
               \A level \in ProcessedLevels :
                   Contribution(district, level) <= SampleLimit

\* What holds for every call: the sample of one pass is the 50 highest, and
\* a (district, level) pair contributes at most 50 candidates for each time
\* analyze_levels names the level.
TimesNamed(level) ==
    Cardinality({p \in 1..Len(AnalysedLevels) : AnalysedLevels[p] = level})

SampleCapPerPass ==
    Returned =>
        /\ OnlyTheHighestEvaluated
        /\ \A district \in DistrictsOf(Pool) :
               \A level \in ProcessedLevels :
                   Contribution(district, level) <= SampleLimit * TimesNamed(level)

SampleCapWhenLevelsDistinct ==
    (Returned /\ DistinctEntries(last.args.analyze_levels)) =>
        /\ OnlyTheHighestEvaluated
        /\ \A district \in DistrictsOf(Pool) :
               \A level \in ProcessedLevels :
                   Contribution(district, level) <= SampleLimit

(***************************************************************************)
(* C26.  As claimed: the stored run identifier and the stored candidate    *)
(* list belong to the same run: once an invocation of the analysis has     *)
(* ended, by returning or by raising, the stored identifier is that of the *)
(* latest invocation and the stored list is the list that invocation       *)
(* produced (none, when it raised).                                        *)
(***************************************************************************)
LatestRun == history[Len(history)]

Aborted(run) == run.outcome # "ok"

C26_IdAndListSameRun ==
    history # <<>> =>
        /\ analysis_id = LatestRun.analysis_id
        /\ upgrade_candidates = IF Aborted(LatestRun) THEN <<>> ELSE LatestRun.result

\* What holds: the identifier is always that of the latest invocation, and
\* the list that of the latest invocation that returned.
ReturnedRuns == SelectSeq(history, LAMBDA run : ~Aborted(run))

ListOfLatestReturnedRun ==
    /\ history # <<>> => analysis_id = LatestRun.analysis_id
    /\ upgrade_candidates =
           IF ReturnedRuns = <<>> THEN <<>> ELSE ReturnedRuns[Len(ReturnedRuns)].result

(***************************************************************************)
(* C25.  As claimed: a download request is served only when the requested  *)
(* identifier is that of the most recent run and that run's candidate list *)
(* is not empty, and then with that list; any other request is answered    *)
(* 'No analysis results found or expired' and nothing is served; and no    *)
(* download changes the analyzer's state.                                  *)
(***************************************************************************)
Downloaded == last.op = "download_results"

ServedOnlyLatestRun ==
    Downloaded =>
        IF /\ history # <<>>
           /\ last.requested_id = LatestRun.analysis_id
           /\ ~Aborted(LatestRun)
           /\ LatestRun.result # <<>>
        THEN last.outcome = "served" /\ last.result = LatestRun.result
        ELSE /\ last.outcome = "No analysis results found or expired"
             /\ last.result = <<>>

analyzer == <<schools_df, schools_loaded, upgrade_candidates, search_radius_km, analysis_id>>

DownloadChangesNothing ==
    [][(last'.op = "download_results" /\ last' # last) => UNCHANGED analyzer]_vars

C25_DownloadOnlyLatest == []ServedOnlyLatestRun /\ DownloadChangesNothing

\* What holds: a download is served exactly when the requested identifier is
\* the stored one and the stored list is not empty, with the stored list.
ServedStoredList ==
    Downloaded =>
        IF last.requested_id = analysis_id /\ upgrade_candidates # <<>>
        THEN last.outcome = "served" /\ last.result = upgrade_candidates
        ELSE /\ last.outcome = "No analysis results found or expired"
             /\ last.result = <<>>

ServedOnlyLatestRunWhenNoneAborted ==
    (\A i \in 1..Len(history) : ~Aborted(history[i])) => ServedOnlyLatestRun

(***************************************************************************)
(* C27.  As claimed: every record of the stored candidate list refers, by  *)
(* BemisCode, to a school of the working set currently loaded.             *)
(***************************************************************************)
BemisCodes(rows) == {rows[i].BemisCode : i \in 1..Len(rows)}

C27_CandidatesOfLoadedSet == BemisCodes(upgrade_candidates) \subseteq BemisCodes(schools_df)

\* What holds: the stored candidates are schools of the working set that
\* was loaded when the latest returned run was made.
CandidatesOfLoadedSetAtRun ==
    [][(upgrade_candidates' # upgrade_candidates)
           => BemisCodes(upgrade_candidates') \subseteq BemisCodes(schools_df)]_vars

(***************************************************************************)
(* C29.  As claimed: create_application returns the application of app.py, *)
(* with the upload, analyze and download routes, whenever the import of    *)
(* app succeeded, and the fallback application, whose only routes are '/', *)
(* '/debug' and '/health', only when that import failed.                   *)
(***************************************************************************)
Created == application.pc = "returned"

Rules(app) == {rule_endpoint[1] : rule_endpoint \in app.url_map}

IsFullApplication(app) ==
    /\ app.name = "app"
    /\ {"/upload", "/analyze", "/download/<analysis_id>"} \subseteq Rules(app)

IsFallbackApplication(app) ==
    /\ app.name = "create_application"
    /\ Rules(app) = {"/", "/debug", "/health"}

C29_FullAppWhenImported ==
    Created =>
        /\ application.imported => IsFullApplication(application.returned)
        /\ IsFallbackApplication(application.returned) => ~application.imported

\* What holds: whatever the environment, the application returned is the
\* fallback one; after a successful import the exception is the
\* AssertionError of add_url_rule, app.py having its own 'health' endpoint.
AlwaysFallback ==
    Created =>
        /\ IsFallbackApplication(application.returned)
        /\ application.imported <=> application.error = "AssertionError"
        /\ application.imported <=> ImportSucceeds(environment)

(***************************************************************************)
(* C30.  As claimed: a dataset produced by the converter is usable: in an  *)
(* analysis of the uploaded file that includes functional schools, a       *)
(* converted school that is Functional, has enrollment >= min_enrollment   *)
(* and has no successor-level school of its district within the radius     *)
(* passes the quality gate, and is emitted when it also meets the upgrade  *)
(* criteria (in a run that does not reach the cap).                        *)
(***************************************************************************)
Unserved(school) ==
    /\ school.SchoolLevel \in DOMAIN UPGRADE_MAPPING
    /\ \A other \in Rows(schools_df) :
           ~(/\ other.District = school.District
             /\ other.SchoolLevel = Successor(school.SchoolLevel)
             /\ calculate_distance_fast(school._yCord, other._yCord)
                    <= last.args.radius_km)

Usable(school) ==
    /\ school.FunctionalStatus = "Functional"
    /\ school.TotalStudentProfileEntered >= last.args.min_enrollment
    /\ Unserved(school)

C30_ConvertedUsable ==
    (Returned /\ last.args.include_functional) =>
        \A school \in Rows(schools_df) :
            Usable(school) =>
                /\ school \in Rows(Pool)
                /\ (/\ Len(last.result) < last.args.max_candidates
                    /\ school.SchoolLevel \in ProcessedLevels
                    /\ school \in Sample(school.District, school.SchoolLevel)
                    /\ Eligible(school, school.SchoolLevel))
                       => Emitted(school, school.SchoolLevel)

\* What holds: the converter writes Building = 'Available' for every school
\* and both gates of the analyzer require 'Yes', so the pool of every
\* analysis of a converted file is empty and nothing is emitted.
ConvertedNeverInPool ==
    /\ \A school \in Rows(schools_df) : school.Building = "Available"
    /\ Returned => Pool = <<>> /\ last.result = <<>>

====
